---- MODULE Spec2Model ----
(***************************************************************************)
(* Goodie: ISBN detection (src/src/utils/isbn.js), the extension's         *)
(* metadata resolver with its expiring cache (background service worker,   *)
(* google-books and open-library providers, chrome.storage.local) and the  *)
(* userscript's scanner (README.md).                                       *)
(*                                                                         *)
(* Strings are modelled as sequences of one-character strings.             *)
(***************************************************************************)
EXTENDS Integers, Sequences, FiniteSets, TLC

(***************************************************************************)
(* Bounds of the model                                                     *)
(***************************************************************************)
\* the page text is a concatenation of at most MaxChunks fragments
MaxChunks == 3

(***************************************************************************)
(* Characters                                                              *)
(***************************************************************************)
Digits == {"0", "1", "2", "3", "4", "5", "6", "7", "8", "9"}

DigitVal == [c \in Digits |->
              CASE c = "0" -> 0 [] c = "1" -> 1 [] c = "2" -> 2 [] c = "3" -> 3
                [] c = "4" -> 4 [] c = "5" -> 5 [] c = "6" -> 6 [] c = "7" -> 7
                [] c = "8" -> 8 [] c = "9" -> 9]

\* the value parseInt gives for a character that is no decimal digit
NaN == -1

\* parseInt(c, 10) of a one-character string
parseInt(c) == IF c \in Digits THEN DigitVal[c] ELSE NaN

\* the characters of the class [\s\-] that occur in the modelled texts
IsSep(c) == c \in {" ", "-"}

\* the characters of the class \s that occur in the modelled texts
IsSpace(c) == c = " "

\* String.prototype.toUpperCase on one character
UpperChar(c) ==
  CASE c = "x" -> "X" [] c = "i" -> "I" [] c = "s" -> "S" [] c = "b" -> "B"
    [] c = "n" -> "N" [] c = "a" -> "A" [] c = "d" -> "D" [] c = "o" -> "O"
    [] OTHER -> c

Range(s) == {s[i] : i \in 1..Len(s)}

(***************************************************************************)
(* src/src/utils/isbn.js                                                   *)
(***************************************************************************)
RECURSIVE RemoveSeps(_)
RemoveSeps(s) ==
  IF s = <<>> THEN <<>>
  ELSE IF IsSep(Head(s)) THEN RemoveSeps(Tail(s))
  ELSE <<Head(s)>> \o RemoveSeps(Tail(s))

\* isbn.replace(/[\s\-]/g, '').toUpperCase()
normalizeISBN(isbn) ==
  LET r == RemoveSeps(isbn) IN [i \in 1..Len(r) |-> UpperChar(r[i])]

\* the loop of validateISBN10Checksum: positions 0..8 (here 1..9), weight 10 - i;
\* NaN as soon as a character is no digit
RECURSIVE Sum10(_, _, _)
Sum10(s, k, sum) ==
  IF k > 9 THEN sum
  ELSE IF parseInt(s[k]) = NaN THEN NaN
  ELSE Sum10(s, k + 1, sum + parseInt(s[k]) * (11 - k))

\* the mutant of validateISBN10Checksum that takes a lowercase x as check digit too
validateISBN10ChecksumAnyX(isbn10) ==
  IF Len(isbn10) # 10 THEN FALSE
  ELSE LET sum == Sum10(isbn10, 1, 0)
           checkDigit == IF isbn10[10] \in {"X", "x"} THEN 10 ELSE parseInt(isbn10[10])
       IN  IF sum = NaN THEN FALSE
           ELSE IF checkDigit = NaN THEN FALSE
           ELSE (sum + checkDigit) % 11 = 0

validateISBN10Checksum(isbn10) ==
  IF Len(isbn10) # 10 THEN FALSE
  ELSE LET sum == Sum10(isbn10, 1, 0)
           checkDigit == IF isbn10[10] = "X" THEN 10 ELSE parseInt(isbn10[10])
       IN  IF sum = NaN THEN FALSE
           ELSE IF checkDigit = NaN THEN FALSE
           ELSE (sum + checkDigit) % 11 = 0

\* the loop of validateISBN13Checksum: weight 1 on even 0-based positions, 3 on odd
RECURSIVE Sum13(_, _, _, _)
Sum13(s, k, last, sum) ==
  IF k > last THEN sum
  ELSE IF parseInt(s[k]) = NaN THEN NaN
  ELSE Sum13(s, k + 1, last, sum + parseInt(s[k]) * (IF (k - 1) % 2 = 0 THEN 1 ELSE 3))

\* the mutant of validateISBN13Checksum whose loop stops before the check digit
validateISBN13ChecksumFirst12(isbn13) ==
  IF Len(isbn13) # 13 THEN FALSE
  ELSE LET sum == Sum13(isbn13, 1, 12, 0)
       IN  IF sum = NaN THEN FALSE ELSE sum % 10 = 0

validateISBN13Checksum(isbn13) ==
  IF Len(isbn13) # 13 THEN FALSE
  ELSE LET sum == Sum13(isbn13, 1, 13, 0)
       IN  IF sum = NaN THEN FALSE ELSE sum % 10 = 0

startsWith(s, p) == Len(s) >= Len(p) /\ SubSeq(s, 1, Len(p)) = p

\* the mutant of isValidISBN without the 978/979 prefix test
isValidISBNAnyPrefix(isbn) ==
  LET normalized == normalizeISBN(isbn)
  IN  IF Len(normalized) = 10 THEN validateISBN10Checksum(normalized)
      ELSE IF Len(normalized) = 13 THEN validateISBN13Checksum(normalized)
      ELSE FALSE

isValidISBN(isbn) ==
  LET normalized == normalizeISBN(isbn)
  IN  IF Len(normalized) = 10 THEN validateISBN10Checksum(normalized)
      ELSE IF Len(normalized) = 13
        THEN IF ~startsWith(normalized, <<"9", "7", "8">>)
                /\ ~startsWith(normalized, <<"9", "7", "9">>)
             THEN FALSE
             ELSE validateISBN13Checksum(normalized)
      ELSE FALSE

\* a number 0..9 appended to a string: its decimal digit
DigitChar(d) == CHOOSE c \in Digits : DigitVal[c] = d

\* String.prototype.slice(a, b) with 0 <= a <= b, 0-based, end exclusive
slice(s, a, b) == SubSeq(s, a + 1, IF b > Len(s) THEN Len(s) ELSE b)

Null == [kind |-> "null"]

\* a string value returned where null can be returned too
Str(s) == [kind |-> "string", chars |-> s]

\* a boolean return value
Bool(b) == [kind |-> "boolean", value |-> b]

\* the mutant of convertISBN10ToISBN13 that does not validate the ISBN-10 checksum
convertISBN10ToISBN13Unchecked(isbn10) ==
  LET normalized == normalizeISBN(isbn10)
  IN  IF Len(normalized) # 10 THEN Null
      ELSE LET base == <<"9", "7", "8">> \o slice(normalized, 0, 9)
               sum == Sum13(base, 1, 12, 0)
           IN  IF sum = NaN THEN Str(base \o <<"N", "a", "N">>)
               ELSE Str(Append(base, DigitChar((10 - (sum % 10)) % 10)))

\* the mutant of convertISBN10ToISBN13 that keeps the check digit of the ISBN-10
convertISBN10ToISBN13KeepCheck(isbn10) ==
  LET normalized == normalizeISBN(isbn10)
  IN  IF Len(normalized) # 10 \/ ~validateISBN10Checksum(normalized) THEN Null
      ELSE Str(<<"9", "7", "8">> \o normalized)

convertISBN10ToISBN13(isbn10) ==
  LET normalized == normalizeISBN(isbn10)
  IN  IF Len(normalized) # 10 \/ ~validateISBN10Checksum(normalized) THEN Null
      ELSE LET base == <<"9", "7", "8">> \o slice(normalized, 0, 9)
               sum == Sum13(base, 1, 12, 0)
           IN  IF sum = NaN THEN Str(base \o <<"N", "a", "N">>)
               ELSE Str(Append(base, DigitChar((10 - (sum % 10)) % 10)))

\* the mutant of formatISBN that returns the normalized form for the other lengths
formatISBNNormalizedElse(isbn) ==
  LET normalized == normalizeISBN(isbn)
      n == Len(normalized)
  IN  IF n = 13
      THEN slice(normalized, 0, 3) \o <<"-">> \o slice(normalized, 3, 4) \o <<"-">>
             \o slice(normalized, 4, 7) \o <<"-">> \o slice(normalized, 7, 12) \o <<"-">>
             \o slice(normalized, 12, n)
      ELSE IF n = 10
      THEN slice(normalized, 0, 1) \o <<"-">> \o slice(normalized, 1, 4) \o <<"-">>
             \o slice(normalized, 4, 9) \o <<"-">> \o slice(normalized, 9, n)
      ELSE normalized

\* the mutant of formatISBN whose fourth ISBN-13 group ends one character early
formatISBNShortGroup(isbn) ==
  LET normalized == normalizeISBN(isbn)
      n == Len(normalized)
  IN  IF n = 13
      THEN slice(normalized, 0, 3) \o <<"-">> \o slice(normalized, 3, 4) \o <<"-">>
             \o slice(normalized, 4, 7) \o <<"-">> \o slice(normalized, 7, 11) \o <<"-">>
             \o slice(normalized, 12, n)
      ELSE IF n = 10
      THEN slice(normalized, 0, 1) \o <<"-">> \o slice(normalized, 1, 4) \o <<"-">>
             \o slice(normalized, 4, 9) \o <<"-">> \o slice(normalized, 9, n)
      ELSE isbn

formatISBN(isbn) ==
  LET normalized == normalizeISBN(isbn)
      n == Len(normalized)
  IN  IF n = 13
      THEN slice(normalized, 0, 3) \o <<"-">> \o slice(normalized, 3, 4) \o <<"-">>
             \o slice(normalized, 4, 7) \o <<"-">> \o slice(normalized, 7, 12) \o <<"-">>
             \o slice(normalized, 12, n)
      ELSE IF n = 10
      THEN slice(normalized, 0, 1) \o <<"-">> \o slice(normalized, 1, 4) \o <<"-">>
             \o slice(normalized, 4, 9) \o <<"-">> \o slice(normalized, 9, n)
      ELSE isbn

(***************************************************************************)
(* The two patterns of ISBN_PATTERNS (src/src/config/constants.js), flags  *)
(* gi.  A position is 1-based; a matcher returns the position after the    *)
(* match, or 0 when there is no match.  Every quantifier of the patterns   *)
(* is greedy and is followed by a character class disjoint from what it    *)
(* consumes, so giving a character back never produces a match: the greedy *)
(* scan below is what the backtracking engine computes.                    *)
(***************************************************************************)
CharAt(t, q) == IF q >= 1 /\ q <= Len(t) THEN t[q] ELSE ""

\* [\s\-]?
SkipSep(t, q) == IF IsSep(CharAt(t, q)) THEN q + 1 ELSE q

\* \s*
RECURSIVE SkipSpaces(_, _)
SkipSpaces(t, q) == IF IsSpace(CharAt(t, q)) THEN SkipSpaces(t, q + 1) ELSE q

\* (?:\d[\s\-]?){k}
RECURSIVE Groups(_, _, _)
Groups(t, q, k) ==
  IF k = 0 THEN q
  ELSE IF CharAt(t, q) \in Digits THEN Groups(t, SkipSep(t, q + 1), k - 1)
  ELSE 0

\* ISBN(?:-13)?:?\s*  or  ISBN(?:-10)?:?\s*  (case-insensitive) at position q;
\* n is 13 or 10
LabelEnd(t, q, n) ==
  IF /\ UpperChar(CharAt(t, q)) = "I" /\ UpperChar(CharAt(t, q + 1)) = "S"
     /\ UpperChar(CharAt(t, q + 2)) = "B" /\ UpperChar(CharAt(t, q + 3)) = "N"
  THEN LET a == q + 4
           b == IF /\ CharAt(t, a) = "-" /\ CharAt(t, a + 1) = "1"
                   /\ CharAt(t, a + 2) = (IF n = 13 THEN "3" ELSE "0")
                THEN a + 3 ELSE a
           c == IF CharAt(t, b) = ":" THEN b + 1 ELSE b
       IN  SkipSpaces(t, c)
  ELSE 0

\* 97[89][\s\-]?(?:\d[\s\-]?){9}\d
Body13(t, q) ==
  IF CharAt(t, q) = "9" /\ CharAt(t, q + 1) = "7" /\ CharAt(t, q + 2) \in {"8", "9"}
  THEN LET g == Groups(t, SkipSep(t, q + 3), 9)
       IN  IF g # 0 /\ CharAt(t, g) \in Digits THEN g + 1 ELSE 0
  ELSE 0

\* (?:\d[\s\-]?){9}[\dXx]
Body10(t, q) ==
  LET g == Groups(t, q, 9)
  IN  IF g # 0 /\ CharAt(t, g) \in Digits \cup {"X", "x"} THEN g + 1 ELSE 0

Body(t, q, n) == IF n = 13 THEN Body13(t, q) ELSE Body10(t, q)

\* one attempt of the pattern at position q: the optional label first, then
\* without it
MatchAt(t, q, n) ==
  LET le == LabelEnd(t, q, n)
      withLabel == IF le = 0 THEN 0 ELSE Body(t, le, n)
  IN  IF withLabel # 0 THEN withLabel ELSE Body(t, q, n)

\* match[0].replace(/ISBN(?:-13)?:?\s*/i, ''): the first occurrence of the label
\* anywhere in the matched text is removed
RECURSIVE StripLabelFrom(_, _, _)
StripLabelFrom(raw, j, n) ==
  IF j > Len(raw) THEN raw
  ELSE LET le == LabelEnd(raw, j, n)
       IN  IF le # 0 THEN SubSeq(raw, 1, j - 1) \o SubSeq(raw, le, Len(raw))
           ELSE StripLabelFrom(raw, j + 1, n)

StripLabel(raw, n) == StripLabelFrom(raw, 1, n)

\* the mutant of Accept that forgets the checksum
AcceptShapeOnly(isbn, n) == Len(isbn) = n

\* isbn.length === 13 && isValidISBN(isbn)   (10 for the second loop)
Accept(isbn, n) == Len(isbn) = n /\ isValidISBN(isbn)

\* the mutant of SetAdd that keeps an array instead of a Set
ArrayPush(found, isbn) == Append(found, isbn)

\* foundISBNs.add(isbn): a Set keeps insertion order and ignores a value it holds
SetAdd(found, isbn) == IF isbn \in Range(found) THEN found ELSE Append(found, isbn)

\* for (const match of text.matchAll(pattern)) { ... }: the leftmost match at or
\* after lastIndex, then on from the end of that match; the sequence of the
\* identifiers the loop body accepts, in match order
RECURSIVE AcceptedMatches(_, _, _)
AcceptedMatches(t, q, n) ==
  IF q > Len(t) THEN <<>>
  ELSE LET e == MatchAt(t, q, n)
       IN  IF e = 0 THEN AcceptedMatches(t, q + 1, n)
           ELSE LET isbn == normalizeISBN(StripLabel(SubSeq(t, q, e - 1), n))
                IN  (IF Accept(isbn, n) THEN <<isbn>> ELSE <<>>)
                      \o AcceptedMatches(t, e, n)

\* the loop body's foundISBNs.add(isbn), for each accepted match in turn
RECURSIVE AddAll(_, _)
AddAll(found, isbns) ==
  IF isbns = <<>> THEN found ELSE AddAll(SetAdd(found, Head(isbns)), Tail(isbns))

\* the mutant of extractISBNs that drops a 10-character identifier found inside
\* a 13-character identifier of the output
extractISBNsMerging(t) ==
  LET found13 == AddAll(<<>>, AcceptedMatches(t, 1, 13))
  IN  AddAll(found13,
             SelectSeq(AcceptedMatches(t, 1, 10),
                       LAMBDA v : ~\E w \in Range(found13) : SubSeq(w, 1, 10) = v))

\* the mutant of extractISBNs that runs the ISBN-10 loop first
extractISBNs10First(t) ==
  AddAll(AddAll(<<>>, AcceptedMatches(t, 1, 10)), AcceptedMatches(t, 1, 13))

\* ISBN-13 loop, then ISBN-10 loop, then Array.from(foundISBNs)
extractISBNs(t) ==
  AddAll(AddAll(<<>>, AcceptedMatches(t, 1, 13)), AcceptedMatches(t, 1, 10))

(***************************************************************************)
(* Page texts: concatenations of fragments                                 *)
(***************************************************************************)
TxtValid13 == <<"9", "7", "8", "0", "1", "3", "4", "6", "8", "5", "9", "9", "1">>
TxtFmt13 == <<"9", "7", "8", "-", "0", "-", "1", "3", "-", "4", "6", "8", "5", "9", "9", "-", "1">>
TxtBad13 == <<"9", "7", "8", "0", "1", "3", "4", "6", "8", "5", "9", "9", "0">>
TxtValid10 == <<"0", "3", "0", "6", "4", "0", "6", "1", "5", "2">>
TxtFmt10 == <<"0", "-", "3", "0", "6", "-", "4", "0", "6", "1", "5", "-", "2">>
TxtX10 == <<"0", "4", "3", "9", "4", "2", "0", "8", "9", "x">>
TxtUpperX10 == <<"0", "4", "3", "9", "4", "2", "0", "8", "9", "X">>
TxtBad10 == <<"1", "2", "3", "4", "5", "6", "7", "8", "9", "0">>
TxtLabel == <<"I", "S", "B", "N", ":", " ">>
TxtLabel10 == <<"i", "s", "b", "n", "-", "1", "0", ":">>
TxtAnd == <<" ", "a", "n", "d", " ">>
\* a number written before an identifier, as in "Vol. 2 0306406152"
TxtNumber == <<"2", " ">>
\* a checksum-valid 13-character identifier whose first ten characters pass the
\* ISBN-10 checksum
TxtNested13 == <<"9", "7", "8", "0", "0", "0", "0", "0", "0", "3", "0", "0", "3">>

Chunks == {TxtValid13, TxtFmt13, TxtBad13, TxtValid10, TxtFmt10, TxtX10, TxtUpperX10,
           TxtBad10, TxtLabel, TxtLabel10, TxtAnd, TxtNumber, TxtNested13}

RECURSIVE Flatten(_)
Flatten(cs) == IF cs = <<>> THEN <<>> ELSE Head(cs) \o Flatten(Tail(cs))

Texts == {Flatten(cs) : cs \in UNION {[1..k -> Chunks] : k \in 0..MaxChunks}}

(***************************************************************************)
(* Argument strings for the functions of isbn.js: the strings below and    *)
(* what at most MaxEdits replacements of one character make of them        *)
(***************************************************************************)
MaxEdits == 1

Txt979 == <<"9", "7", "9", "1", "2", "3", "4", "5", "6", "7", "8", "9", "6">>
TxtOther13 == <<"1", "2", "3", "4", "5", "6", "7", "8", "9", "0", "1", "2", "8">>
TxtSpaced13 == <<"9", "7", "8", " ", "0", " ", "1", "3", " ", "4", "6", "8", "5", "9", "9", " ", "1">>
TxtShort == <<"1", "2", "3">>
TxtTest10 == <<"0", "1", "3", "4", "6", "8", "5", "9", "9", "1">>
TxtFmtX10 == <<"0", "-", "4", "3", "9", "-", "4", "2", "0", "8", "9", "-", "X">>

IsbnStrings == {<<>>, TxtShort, TxtValid10, TxtUpperX10, TxtX10, TxtBad10, TxtFmt10, TxtFmtX10,
                TxtTest10,
                TxtValid13, TxtFmt13, TxtSpaced13, TxtBad13, Txt979, TxtOther13}

EditChars == {"0", "7", "X", "x", "-", "a"}

RECURSIVE Edited(_)
Edited(k) ==
  IF k = 0 THEN IsbnStrings
  ELSE LET prev == Edited(k - 1)
       IN  prev \cup UNION {{[str EXCEPT ![q] = c] : q \in 1..Len(str), c \in EditChars} :
                              str \in prev}

RawInputs == Edited(MaxEdits)

(***************************************************************************)
(* State                                                                   *)
(***************************************************************************)
VARIABLES
  \* --- the extractor under test
  text,        \* the text handed to extractISBNs
  extracted,   \* what extractISBNs returned
  xpc,         \* "input" before the call of extractISBNs, "done" after it
  \* --- the other functions of isbn.js under test
  raw,         \* the string handed to the function
  fn,          \* the function that was called, "none" before the call
  ret,         \* what the function returned
  \* --- the extension's background service worker and its environment
  storage,     \* chrome.storage.local, key bookMetadataCache: isbn -> entry
  now,         \* Date.now()
  nreq,        \* GET_DETECTED_BOOKS messages handled so far
  pc,          \* per resolution: the await it is suspended at
  isbn,        \* per resolution: the argument of handleFetchBookInfo
  grp,         \* per resolution: the GET_DETECTED_BOOKS message it belongs to
  book,        \* per resolution: the metadata a provider parsed (cacheBookInfo's argument)
  wr,          \* per resolution: the cache object cacheBookInfo passes to setLocalStorage
  result,      \* per resolution: what handleFetchBookInfo returned
  bookOut,     \* per resolution: what the map callback of handleGetDetectedBooks returned
  \* --- history of each resolution (not read by the program)
  hist,        \* the calls, requests and outcomes of the resolution, in order
  startData,   \* what an unexpired entry of the cache held when the resolution started
  seenData,    \* what the first cache lookup of the resolution read, unexpired
  fault,       \* a storage read or write of the resolution failed
  olRet,       \* what openLibrary.fetchBookInfo returned
  missedAtStart, \* an earlier resolution of the same ISBN had ended in the sentinel
  missed,      \* the ISBNs some resolution has ended in the sentinel for
  \* --- the userscript and its page
  booted,        \* init() has run
  bodyText,      \* document.body.textContent
  detectedISBNs, \* the Set detectedISBNs, in insertion order
  bookData,      \* the Map bookData: isbn -> book info
  isScanning,    \* the flag isScanning
  timeoutId,     \* the timer of debouncedScan is armed
  bookCache,     \* GM value bookCache: isbn -> entry
  fetching,      \* per activation of scanPage and ISBN: the request awaited
  panel,         \* what renderPanel last rendered
  \* --- history of the userscript (not read by the program)
  calls,         \* calls of scanPage so far
  started,       \* calls of scanPage that passed the isScanning check
  renders,       \* calls of renderPanel so far
  \* --- the extension's content script (it shares bodyText, isScanning, timeoutId
  \*     and booted with the userscript: the same names in the source)
  foundISBNs,    \* the Set foundISBNs, in insertion order
  sent,          \* the ISBNS_DETECTED messages handed to chrome.runtime.sendMessage
  responses,     \* what handleMessage gave to sendResponse, in order
  \* --- a function debounced by debounce(func, delay)
  delay,         \* the parameter delay
  clock,         \* the time of the event loop
  timers,        \* the timers set and neither fired nor cleared: id, due time, args
  dbTimeoutId,   \* the variable timeoutId of the closure, 0 for undefined
  dbCalls,       \* history: the calls of the debounced function, time and arguments
  invocations,   \* history: the calls of func, time and arguments
  \* --- the background's tab tracking
  tabISBNs,      \* the Map tabISBNs: tab id -> the list stored, if any
  badge,         \* the badge text of each tab
  reply,         \* what handleGetDetectedBooks last resolved to
  delivered,     \* the messages of sent that the background has handled
  event          \* history: the event the background handled last

xvars == <<text, extracted, xpc, raw, fn, ret>>

usvars == <<booted, bodyText, detectedISBNs, bookData, isScanning, timeoutId, bookCache,
            fetching, panel, calls, started, renders>>

csvars == <<foundISBNs, sent, responses>>

dbvars == <<delay, clock, timers, dbTimeoutId, dbCalls, invocations>>

tabvars == <<tabISBNs, badge, reply, delivered, event>>

procvars == <<pc, isbn, grp, book, wr, result, bookOut, hist, startData, seenData, fault,
              olRet, missedAtStart>>

bgvars == <<storage, now, nreq, pc, isbn, grp, book, wr, result, bookOut, hist,
            startData, seenData, fault, olRet, missedAtStart, missed>>

vars == <<text, extracted, xpc, raw, fn, ret, storage, now, nreq, pc, isbn, grp, book, wr,
          result, bookOut, hist, startData, seenData, fault, olRet, missedAtStart, missed,
          booted, bodyText, detectedISBNs, bookData, isScanning, timeoutId, bookCache,
          fetching, panel, calls, started, renders, foundISBNs, sent, responses,
          delay, clock, timers, dbTimeoutId, dbCalls, invocations, tabISBNs, badge, reply,
          delivered, event>>

(***************************************************************************)
(* Values of the resolver                                                  *)
(***************************************************************************)
\* DEFAULTS.CACHE_TTL_MS = 24 * 60 * 60 * 1000
CACHE_TTL_MS == 86400000

\* concurrent resolutions (activations of handleFetchBookInfo)
MaxProcs == 2
\* GET_DETECTED_BOOKS messages handled in one run
MaxRequests == 2
\* millisecond ticks of the clock within one day
MaxTicks == 1
\* whole-TTL jumps of the clock
MaxDays == 1

Procs == 1..MaxProcs

\* no function of isbn.js other than extractISBNs has been called
NotCalledYet == fn = "none" /\ ret = Null

\* the ISBNs the content script reported for the tabs
Isbns == {"0306406152", "9780134685991"}

Thrown == [kind |-> "throw"]
NotCalled == [kind |-> "not-called"]
NoEntry == [kind |-> "undefined"]

\* {} : the defaultValue of getLocalStorage(STORAGE_KEYS.BOOK_METADATA_CACHE, {})
EmptyCache == [i \in Isbns |-> NoEntry]

Book(i, title, source) == [kind |-> "book", isbn |-> i, title |-> title, source |-> source]

\* what the network gives for a request to Google Books: fetch rejects, a
\* non-ok status, a body that is no JSON, a body without items, a body with items
\* (title "" stands for a record without a title)
GoogleResponses ==
  {[kind |-> "network_error"], [kind |-> "http_error"], [kind |-> "bad_json"],
   [kind |-> "no_items"], [kind |-> "items", title |-> "Effective Java"]}

\* ... for the bib-key request to Open Library
OLBooksResponses ==
  {[kind |-> "network_error"], [kind |-> "http_error"], [kind |-> "bad_json"],
   [kind |-> "no_record"], [kind |-> "record", title |-> "Effective Java"]}

\* ... for the per-ISBN request to Open Library
OLISBNResponses ==
  {[kind |-> "network_error"], [kind |-> "http_error"], [kind |-> "bad_json"],
   [kind |-> "doc", title |-> ""]}

(***************************************************************************)
(* storage.js, google-books.js, open-library.js                            *)
(***************************************************************************)
\* getLocalStorage(key, {}): a rejected chrome.storage.local.get is caught and the
\* default value returned
getLocalStorage(ok) == IF ok THEN storage ELSE EmptyCache

\* a - b, a > b and a < b of JavaScript numbers: a timestamp that is missing or
\* no number makes the difference NaN, and every comparison with NaN is false
Minus(a, b) == IF a = NaN \/ b = NaN THEN NaN ELSE a - b

GreaterThan(a, b) == a # NaN /\ b # NaN /\ a > b

LessThan(a, b) == a # NaN /\ b # NaN /\ a < b

\* the mutant of IsExpired that also expires an entry of age exactly the TTL
IsExpiredAtTTL(t, timestamp) ==
  GreaterThan(Minus(t, timestamp), CACHE_TTL_MS) \/ Minus(t, timestamp) = CACHE_TTL_MS

\* now - cached.timestamp > DEFAULTS.CACHE_TTL_MS
IsExpired(t, timestamp) == GreaterThan(Minus(t, timestamp), CACHE_TTL_MS)

\* getCachedBookInfo(isbn), after its storage read returned cache, at time t
getCachedBookInfo(cache, i, t) ==
  LET cached == cache[i]
  IN  IF cached.kind = "undefined" THEN Null
      ELSE IF IsExpired(t, cached.timestamp) THEN Null
      ELSE cached.data

\* the mutant of CacheAssign that keeps an entry the cache already holds
CacheAssignIfAbsent(cache, i, bookInfo, t) ==
  IF cache[i].kind = "undefined"
  THEN [cache EXCEPT ![i] = [kind |-> "entry", data |-> bookInfo, timestamp |-> t]]
  ELSE cache

\* the mutant of CacheAssign that writes the cache object back as it was read
CacheAssignSkipped(cache, i, bookInfo, t) == cache

\* cache[isbn] = { data: bookInfo, timestamp: Date.now() }
CacheAssign(cache, i, bookInfo, t) ==
  [cache EXCEPT ![i] = [kind |-> "entry", data |-> bookInfo, timestamp |-> t]]

\* the mutant of parseGoogleBooksResponse that takes the ISBN from the volume's
\* own identifiers, which list the 13-character form
parseGoogleBooksResponseOwnIsbn(item, i) ==
  Book(IF i = "0306406152" THEN "9780306406157" ELSE i,
       IF item.title # "" THEN item.title ELSE "Unknown Title", "google-books")

parseGoogleBooksResponse(item, i) ==
  Book(i, IF item.title # "" THEN item.title ELSE "Unknown Title", "google-books")

parseOpenLibraryBooksResponse(data, i) ==
  Book(i, IF data.title # "" THEN data.title ELSE "Unknown Title", "open-library")

parseOpenLibraryISBNResponse(data, i) ==
  Book(i, IF data.title # "" THEN data.title ELSE "Unknown Title", "open-library")

\* the try block of googleBooks.fetchBookInfo from the fetch to the parsed book
GoogleTry(resp, i) ==
  CASE resp.kind = "network_error" -> Thrown
    [] resp.kind = "http_error" -> Thrown
    [] resp.kind = "bad_json" -> Thrown
    [] resp.kind = "no_items" -> Null
    [] OTHER -> parseGoogleBooksResponse(resp, i)

\* the mutant of GoogleCatch whose catch block throws the error on
GoogleRethrow(v) == v

\* catch (error) { ...; return null; } of googleBooks.fetchBookInfo
GoogleCatch(v) == IF v.kind = "throw" THEN Null ELSE v

\* fetchFromBooksAPI: its try block, and its catch returning null
fetchFromBooksAPI(resp, i) ==
  LET v == CASE resp.kind = "network_error" -> Thrown
             [] resp.kind = "http_error" -> Thrown
             [] resp.kind = "bad_json" -> Thrown
             [] resp.kind = "no_record" -> Null
             [] OTHER -> parseOpenLibraryBooksResponse(resp, i)
  IN  IF v.kind = "throw" THEN Null ELSE v

\* fetchFromISBNEndpoint: a non-ok status returns null, an error is caught
fetchFromISBNEndpoint(resp, i) ==
  LET v == CASE resp.kind = "network_error" -> Thrown
             [] resp.kind = "http_error" -> Null
             [] resp.kind = "bad_json" -> Thrown
             [] OTHER -> parseOpenLibraryISBNResponse(resp, i)
  IN  IF v.kind = "throw" THEN Null ELSE v

\* the mutant of CacheHit that never takes the cached branch
CacheNeverHit(cachedData) == FALSE

\* the mutant of CacheHit that takes the cached branch for Open Library data only
CacheHitOpenLibraryOnly(cachedData) ==
  cachedData.kind = "book" /\ cachedData.source = "open-library"

\* if (cached) { return cached; } of googleBooks.fetchBookInfo
CacheHit(cachedData) == cachedData.kind \notin {"null", "undefined"}

(***************************************************************************)
(* background.js                                                           *)
(***************************************************************************)
\* the mutant of NeedsFallback that never falls back to Open Library
NeverFallback(bookInfo) == FALSE

\* if (!bookInfo) of handleFetchBookInfo
NeedsFallback(bookInfo) == bookInfo.kind = "null"

\* the return statements of handleFetchBookInfo: the two of the try block and
\* the one of its catch block
handleFetchBookInfoReturn(bookInfo, i) ==
  IF bookInfo.kind = "throw"
  THEN [success |-> FALSE, error |-> "error.message", isbn |-> i, book |-> Null]
  ELSE IF bookInfo.kind = "book"
  THEN [success |-> TRUE, error |-> "", isbn |-> i, book |-> bookInfo]
  ELSE [success |-> FALSE, error |-> "Book metadata not found", isbn |-> i, book |-> Null]

Sentinel(i) == Book(i, "Details Unavailable", "none")

\* the mutant of BookOrSentinel that hands a failed resolution on as it is
BookOrNothing(res, i) == res.book

\* the map callback of handleGetDetectedBooks
BookOrSentinel(res, i) == IF res.success THEN res.book ELSE Sentinel(i)

NoResult == [success |-> FALSE, error |-> "pending", isbn |-> "", book |-> Null]

(***************************************************************************)
(* The userscript (README.md): values and functions                        *)
(***************************************************************************)
\* activations of scanPage that can be suspended at the same time
MaxScans == 2
\* calls of scanPage in one run
MaxCalls == 3

Scans == 1..MaxScans

\* the ISBNs of the page texts, as extractISBNs returns them
UIsbns == {TxtValid13, TxtValid10}

\* document.body.textContent: no ISBN, one, two
UTexts == {<<>>, TxtValid10, TxtValid13 \o TxtAnd \o TxtValid10}

\* what gmFetch gives: it rejects, the body holds no record, the body holds one
GmResponses == {"reject", "empty", "found"}

\* new Map() / the default {} of GM_getValue('bookCache', {})
NoBooks == [i \in UIsbns |-> NoEntry]

NoFetch == [i \in UIsbns |-> "none"]

\* getCachedBook(isbn) over the GM value cache at time t
getCachedBook(cache, i, t) ==
  LET entry == cache[i]
  IN  IF entry.kind = "entry" /\ LessThan(Minus(t, entry.timestamp), CACHE_TTL_MS)
      THEN entry.data
      ELSE Null

\* setCachedBook(isbn, bookInfo) at time t
setCachedBook(cache, i, bookInfo, t) ==
  [cache EXCEPT ![i] = [kind |-> "entry", data |-> bookInfo, timestamp |-> t]]

\* fetchFromGoogleBooks, inside the try of fetchBookInfo whose catch ignores
fetchFromGoogleBooks(resp, i) ==
  IF resp = "found" THEN Book(i, "Effective Java", "google-books") ELSE Null

\* fetchFromOpenLibrary, inside the try of fetchBookInfo whose catch ignores
fetchFromOpenLibrary(resp, i) ==
  IF resp = "found" THEN Book(i, "Effective Java", "open-library") ELSE Null

\* info || { isbn, title: 'Details Unavailable', ..., source: 'none' }
InfoOrSentinel(info, i) ==
  IF info.kind = "book" THEN info ELSE Book(i, "Details Unavailable", "none")

\* extractISBNs(document.body.textContent) for each page text
PageISBNs == [t \in UTexts |-> extractISBNs(t)]

\* the mutant of ScanGuard that lets every call through
ScanGuardOff(flag) == FALSE

\* if (isScanning) return;
ScanGuard(flag) == flag

ScanActive(a) == \E i \in UIsbns : fetching[a][i] # "none"

UsInit ==
  /\ booted = FALSE
  /\ bodyText \in UTexts
  /\ detectedISBNs = <<>>
  /\ bookData = NoBooks
  /\ isScanning = FALSE
  /\ timeoutId = FALSE
  /\ bookCache = NoBooks
  /\ fetching = [a \in Scans |-> NoFetch]
  /\ panel = NoBooks
  /\ calls = 0
  /\ started = 0
  /\ renders = 0

(***************************************************************************)
(* The background: initial state                                           *)
(***************************************************************************)
\* the content script has found and sent nothing
CsIdle ==
  /\ foundISBNs = <<>>
  /\ sent = <<>>
  /\ responses = <<>>

\* tabs the background can hear of
MaxTabs == 2

Tabs == 1..MaxTabs

\* tabISBNs.get(tabId) when the Map has no entry for tabId, and when it has one
NoList == [has |-> FALSE, isbns |-> <<>>]

Listed(isbns) == [has |-> TRUE, isbns |-> isbns]

NoReply == [kind |-> "none", tabId |-> 0, success |-> FALSE, books |-> <<>>]

NoEvent == [type |-> "none", tabId |-> 0]

\* the background has heard of no tab
TabIdle ==
  /\ tabISBNs = [t \in Tabs |-> NoList]
  /\ badge = [t \in Tabs |-> ""]
  /\ reply = NoReply
  /\ delivered = 0
  /\ event = NoEvent

\* no function has been debounced
DbIdle ==
  /\ delay = 0
  /\ clock = 0
  /\ timers = {}
  /\ dbTimeoutId = 0
  /\ dbCalls = <<>>
  /\ invocations = <<>>

BgInit ==
  /\ storage = EmptyCache
  /\ now = 0
  /\ nreq = 0
  /\ pc = [p \in Procs |-> "idle"]
  /\ isbn = [p \in Procs |-> ""]
  /\ grp = [p \in Procs |-> 0]
  /\ book = [p \in Procs |-> Null]
  /\ wr = [p \in Procs |-> EmptyCache]
  /\ result = [p \in Procs |-> NoResult]
  /\ bookOut = [p \in Procs |-> Null]
  /\ hist = [p \in Procs |-> <<>>]
  /\ startData = [p \in Procs |-> Null]
  /\ seenData = [p \in Procs |-> Null]
  /\ fault = [p \in Procs |-> FALSE]
  /\ olRet = [p \in Procs |-> NotCalled]
  /\ missedAtStart = [p \in Procs |-> FALSE]
  /\ missed = {}

(***************************************************************************)
(* The background: one action per handler and per resumption of a          *)
(* suspended resolution.  The code between two awaits runs without         *)
(* interleaving; a storage call takes effect when it completes.            *)
(***************************************************************************)
IdleProcs == {p \in Procs : pc[p] = "idle"}

\* the k-th idle activation slot
NthIdle(k) == CHOOSE p \in IdleProcs : Cardinality({q \in IdleProcs : q < p}) = k - 1

\* tabISBNs.get(tabId) || []: a list without repetition (it is made from a Set)
IsbnLists ==
  {l \in UNION {[1..k -> Isbns] : k \in 0..MaxProcs} :
     \A a, b \in 1..Len(l) : a # b => l[a] # l[b]}

InFlight(p) == pc[p] \notin {"idle", "done"}

\* handleFetchBookInfo returns v (what the try block ended with)
Complete(p, v, olv, h, ok) ==
  LET res == handleFetchBookInfoReturn(v, isbn[p])
  IN  /\ pc' = [pc EXCEPT ![p] = "done"]
      /\ result' = [result EXCEPT ![p] = res]
      /\ bookOut' = [bookOut EXCEPT ![p] = BookOrSentinel(res, isbn[p])]
      /\ hist' = [hist EXCEPT ![p] = h]
      /\ olRet' = [olRet EXCEPT ![p] = olv]
      /\ fault' = [fault EXCEPT ![p] = @ \/ ~ok]
      /\ missed' = IF res.success THEN missed ELSE missed \cup {isbn[p]}

\* GET_DETECTED_BOOKS for a tab whose list is isbns: every handleFetchBookInfo
\* runs up to the storage read of googleBooks.getCachedBookInfo; an empty list
\* is answered at once
HandleGetDetectedBooks(isbns) ==
  /\ UNCHANGED <<xvars, usvars, csvars, dbvars, tabvars>>
  /\ nreq < MaxRequests
  /\ Cardinality(IdleProcs) >= Len(isbns)
  /\ nreq' = nreq + 1
  /\ LET n == Len(isbns)
         slot == [k \in 1..n |-> NthIdle(k)]
         new == {slot[k] : k \in 1..n}
         arg == [p \in new |-> isbns[CHOOSE k \in 1..n : slot[k] = p]]
     IN  /\ pc' = [p \in Procs |-> IF p \in new THEN "g_cache" ELSE pc[p]]
         /\ isbn' = [p \in Procs |-> IF p \in new THEN arg[p] ELSE isbn[p]]
         /\ grp' = [p \in Procs |-> IF p \in new THEN nreq + 1 ELSE grp[p]]
         /\ hist' = [p \in Procs |-> IF p \in new THEN <<"google.fetchBookInfo">> ELSE hist[p]]
         /\ startData' = [p \in Procs |-> IF p \in new
                            THEN getCachedBookInfo(storage, arg[p], now) ELSE startData[p]]
         /\ missedAtStart' = [p \in Procs |-> IF p \in new
                                THEN arg[p] \in missed ELSE missedAtStart[p]]
  /\ UNCHANGED <<storage, now, book, wr, result, bookOut, seenData, fault, olRet, missed>>

\* googleBooks.fetchBookInfo: the storage read of getCachedBookInfo completes; a
\* hit is returned up to handleGetDetectedBooks, a miss issues the request
GoogleCacheRead(p, ok) ==
  /\ UNCHANGED <<xvars, usvars, csvars, dbvars, tabvars>>
  /\ pc[p] = "g_cache"
  /\ LET cachedData == getCachedBookInfo(getLocalStorage(ok), isbn[p], now)
     IN  /\ seenData' = [seenData EXCEPT ![p] = cachedData]
         /\ IF CacheHit(cachedData)
            THEN Complete(p, cachedData, NotCalled, hist[p] \o <<"cache_hit">>, ok)
            ELSE /\ pc' = [pc EXCEPT ![p] = "g_fetch"]
                 /\ hist' = [hist EXCEPT ![p] = @ \o <<"cache_miss", "google_request">>]
                 /\ fault' = [fault EXCEPT ![p] = @ \/ ~ok]
                 /\ UNCHANGED <<result, bookOut, olRet, missed>>
  /\ UNCHANGED <<storage, now, nreq, isbn, grp, book, wr, startData, missedAtStart>>

\* googleBooks.fetchBookInfo: the request completes with resp; a book goes to
\* cacheBookInfo; otherwise handleFetchBookInfo goes on with what was returned
GoogleResponse(p, resp) ==
  /\ UNCHANGED <<xvars, usvars, csvars, dbvars, tabvars>>
  /\ pc[p] = "g_fetch"
  /\ LET v == GoogleCatch(GoogleTry(resp, isbn[p]))
     IN  IF v.kind = "book"
         THEN /\ pc' = [pc EXCEPT ![p] = "put_read"]
              /\ book' = [book EXCEPT ![p] = v]
              /\ hist' = [hist EXCEPT ![p] = @ \o <<"google_book">>]
              /\ UNCHANGED <<result, bookOut, olRet, fault, missed>>
         ELSE IF NeedsFallback(v)
         THEN /\ pc' = [pc EXCEPT ![p] = "ol_cache"]
              /\ hist' = [hist EXCEPT ![p] = @ \o <<"google_miss", "openLibrary.fetchBookInfo">>]
              /\ UNCHANGED <<book, result, bookOut, olRet, fault, missed>>
         ELSE /\ Complete(p, v, NotCalled, hist[p] \o <<"google_miss">>, TRUE)
              /\ UNCHANGED book
  /\ UNCHANGED <<storage, now, nreq, isbn, grp, wr, startData, seenData, missedAtStart>>

\* openLibrary.fetchBookInfo: the storage read of its getCachedBookInfo completes
OpenLibraryCacheRead(p, ok) ==
  /\ UNCHANGED <<xvars, usvars, csvars, dbvars, tabvars>>
  /\ pc[p] = "ol_cache"
  /\ LET cachedData == getCachedBookInfo(getLocalStorage(ok), isbn[p], now)
     IN  IF cachedData.kind # "null"
         THEN Complete(p, cachedData, cachedData, hist[p] \o <<"ol_cache_hit">>, ok)
         ELSE /\ pc' = [pc EXCEPT ![p] = "ol_books"]
              /\ hist' = [hist EXCEPT ![p] = @ \o <<"ol_cache_miss", "books_request">>]
              /\ fault' = [fault EXCEPT ![p] = @ \/ ~ok]
              /\ UNCHANGED <<result, bookOut, olRet, missed>>
  /\ UNCHANGED <<storage, now, nreq, isbn, grp, book, wr, startData, seenData,
                 missedAtStart>>

\* the mutant of OpenLibraryBooksResponse that returns null to handleFetchBookInfo
\* when fetchFromBooksAPI gave nothing, without the per-ISBN request
OpenLibraryBooksResponseAborts(p, resp) ==
  /\ UNCHANGED <<xvars, usvars, csvars, dbvars, tabvars>>
  /\ pc[p] = "ol_books"
  /\ LET booksData == fetchFromBooksAPI(resp, isbn[p])
     IN  IF booksData.kind = "book"
         THEN /\ pc' = [pc EXCEPT ![p] = "put_read"]
              /\ book' = [book EXCEPT ![p] = booksData]
              /\ hist' = [hist EXCEPT ![p] = @ \o <<"books_book">>]
              /\ UNCHANGED <<result, bookOut, olRet, fault, missed>>
         ELSE /\ Complete(p, Null, Null, hist[p] \o <<"books_miss">>, TRUE)
              /\ UNCHANGED book
  /\ UNCHANGED <<storage, now, nreq, isbn, grp, wr, startData, seenData, missedAtStart>>

\* openLibrary.fetchBookInfo: fetchFromBooksAPI returns; a book goes to
\* cacheBookInfo, null goes on to fetchFromISBNEndpoint
OpenLibraryBooksResponse(p, resp) ==
  /\ UNCHANGED <<xvars, usvars, csvars, dbvars, tabvars>>
  /\ pc[p] = "ol_books"
  /\ LET booksData == fetchFromBooksAPI(resp, isbn[p])
     IN  IF booksData.kind = "book"
         THEN /\ pc' = [pc EXCEPT ![p] = "put_read"]
              /\ book' = [book EXCEPT ![p] = booksData]
              /\ hist' = [hist EXCEPT ![p] = @ \o <<"books_book">>]
         ELSE /\ pc' = [pc EXCEPT ![p] = "ol_isbn"]
              /\ hist' = [hist EXCEPT ![p] = @ \o <<"books_miss", "isbn_request">>]
              /\ UNCHANGED book
  /\ UNCHANGED <<storage, now, nreq, isbn, grp, wr, result, bookOut, startData,
                 seenData, fault, olRet, missedAtStart, missed>>

\* openLibrary.fetchBookInfo: fetchFromISBNEndpoint returns; a book goes to
\* cacheBookInfo, null is returned to handleFetchBookInfo
OpenLibraryISBNResponse(p, resp) ==
  /\ UNCHANGED <<xvars, usvars, csvars, dbvars, tabvars>>
  /\ pc[p] = "ol_isbn"
  /\ LET isbnData == fetchFromISBNEndpoint(resp, isbn[p])
     IN  IF isbnData.kind = "book"
         THEN /\ pc' = [pc EXCEPT ![p] = "put_read"]
              /\ book' = [book EXCEPT ![p] = isbnData]
              /\ hist' = [hist EXCEPT ![p] = @ \o <<"isbn_book">>]
              /\ UNCHANGED <<result, bookOut, olRet, fault, missed>>
         ELSE /\ Complete(p, Null, Null, hist[p] \o <<"isbn_miss">>, TRUE)
              /\ UNCHANGED book
  /\ UNCHANGED <<storage, now, nreq, isbn, grp, wr, startData, seenData, missedAtStart>>

\* cacheBookInfo: its storage read completes, the entry is assigned with the
\* current time and setLocalStorage is called with the whole cache object
CachePutRead(p, ok) ==
  /\ UNCHANGED <<xvars, usvars, csvars, dbvars, tabvars>>
  /\ pc[p] = "put_read"
  /\ pc' = [pc EXCEPT ![p] = "put_write"]
  /\ wr' = [wr EXCEPT ![p] = CacheAssign(getLocalStorage(ok), isbn[p], book[p], now)]
  /\ fault' = [fault EXCEPT ![p] = @ \/ ~ok]
  /\ hist' = [hist EXCEPT ![p] = @ \o <<"setLocalStorage">>]
  /\ UNCHANGED <<storage, now, nreq, isbn, grp, book, result, bookOut, startData,
                 seenData, olRet, missedAtStart, missed>>

\* cacheBookInfo: setLocalStorage completes (a rejected write is thrown on by
\* setLocalStorage and caught by cacheBookInfo); the provider returns the book
CachePutWrite(p, ok) ==
  /\ UNCHANGED <<xvars, usvars, csvars, dbvars, tabvars>>
  /\ pc[p] = "put_write"
  /\ storage' = IF ok THEN wr[p] ELSE storage
  /\ wr' = [wr EXCEPT ![p] = EmptyCache]
  /\ Complete(p, book[p],
              IF book[p].source = "open-library" THEN book[p] ELSE NotCalled,
              hist[p] \o <<IF ok THEN "stored" ELSE "store_failed">>, ok)
  /\ UNCHANGED <<now, nreq, isbn, grp, book, startData, seenData, missedAtStart>>

\* handleGetDetectedBooks: Promise.all settles, { success: true, books } is sent
Respond(g) ==
  /\ UNCHANGED <<xvars, usvars, csvars, dbvars, tabvars>>
  /\ g \in 1..nreq
  /\ \E p \in Procs : grp[p] = g
  /\ \A p \in Procs : grp[p] = g => pc[p] = "done"
  /\ LET members == {p \in Procs : grp[p] = g}
     IN  /\ pc' = [p \in Procs |-> IF p \in members THEN "idle" ELSE pc[p]]
         /\ isbn' = [p \in Procs |-> IF p \in members THEN "" ELSE isbn[p]]
         /\ grp' = [p \in Procs |-> IF p \in members THEN 0 ELSE grp[p]]
         /\ book' = [p \in Procs |-> IF p \in members THEN Null ELSE book[p]]
         /\ result' = [p \in Procs |-> IF p \in members THEN NoResult ELSE result[p]]
         /\ bookOut' = [p \in Procs |-> IF p \in members THEN Null ELSE bookOut[p]]
         /\ hist' = [p \in Procs |-> IF p \in members THEN <<>> ELSE hist[p]]
         /\ startData' = [p \in Procs |-> IF p \in members THEN Null ELSE startData[p]]
         /\ seenData' = [p \in Procs |-> IF p \in members THEN Null ELSE seenData[p]]
         /\ fault' = [p \in Procs |-> IF p \in members THEN FALSE ELSE fault[p]]
         /\ olRet' = [p \in Procs |-> IF p \in members THEN NotCalled ELSE olRet[p]]
         /\ missedAtStart' = [p \in Procs |-> IF p \in members THEN FALSE ELSE missedAtStart[p]]
  /\ UNCHANGED <<storage, now, nreq, wr, missed>>

\* a millisecond passes
TickMs ==
  /\ UNCHANGED <<xvars, usvars, csvars, dbvars, tabvars>>
  /\ now % CACHE_TTL_MS < MaxTicks
  /\ now' = now + 1
  /\ UNCHANGED <<storage, nreq, missed>>
  /\ UNCHANGED procvars

\* the TTL passes; a resolution lasts far less than that, so none is in flight
TickDay ==
  /\ UNCHANGED <<xvars, usvars, csvars, dbvars, tabvars>>
  /\ now \div CACHE_TTL_MS < MaxDays
  /\ \A p \in Procs : ~InFlight(p)
  /\ now' = now + CACHE_TTL_MS
  /\ UNCHANGED <<storage, nreq, missed>>
  /\ UNCHANGED procvars

BgNext ==
  \/ \E isbns \in IsbnLists : HandleGetDetectedBooks(isbns)
  \/ \E p \in Procs, ok \in BOOLEAN : GoogleCacheRead(p, ok)
  \/ \E p \in Procs, resp \in GoogleResponses : GoogleResponse(p, resp)
  \/ \E p \in Procs, ok \in BOOLEAN : OpenLibraryCacheRead(p, ok)
  \/ \E p \in Procs, resp \in OLBooksResponses : OpenLibraryBooksResponse(p, resp)
  \/ \E p \in Procs, resp \in OLISBNResponses : OpenLibraryISBNResponse(p, resp)
  \/ \E p \in Procs, ok \in BOOLEAN : CachePutRead(p, ok)
  \/ \E p \in Procs, ok \in BOOLEAN : CachePutWrite(p, ok)
  \/ \E g \in 1..MaxRequests : Respond(g)
  \/ TickMs
  \/ TickDay

\* the resolver of the extension
RInit ==
  /\ BgInit
  /\ CsIdle
  /\ DbIdle
  /\ TabIdle
  /\ UsInit
  /\ bodyText = <<>>
  /\ NotCalledYet
  /\ raw = <<>>
  /\ text = <<>>
  /\ extracted = <<>>
  /\ xpc = "done"

SpecResolver == RInit /\ [][BgNext]_vars

(***************************************************************************)
(* The userscript: scanPage and the handlers that call it                  *)
(***************************************************************************)
\* scanPage() called with detectedISBNs = det and bookData = bd, up to its first
\* suspension: the check of isScanning, the extraction, the filter, the calls of
\* fetchBookInfo (a cached book is set in bookData at once), and, when nothing
\* is left to await, renderPanel and the finally block
scanPage(det, bd) ==
  IF ScanGuard(isScanning)
  THEN /\ detectedISBNs' = det
       /\ bookData' = bd
       /\ UNCHANGED <<isScanning, fetching, panel, started, renders>>
  ELSE LET isbns == PageISBNs[bodyText]
           newISBNs == SelectSeq(isbns, LAMBDA i : i \notin Range(det))
           bd2 == [i \in UIsbns |->
                     IF i \in Range(newISBNs)
                          /\ getCachedBook(bookCache, i, now).kind = "book"
                     THEN getCachedBook(bookCache, i, now) ELSE bd[i]]
           toFetch == {i \in Range(newISBNs) : getCachedBook(bookCache, i, now).kind # "book"}
           a == CHOOSE f \in Scans : ~ScanActive(f)
       IN  /\ started' = started + 1
           /\ detectedISBNs' = det \o newISBNs
           /\ bookData' = bd2
           /\ IF toFetch = {}
              THEN /\ panel' = bd2
                   /\ renders' = renders + 1
                   /\ isScanning' = FALSE
                   /\ UNCHANGED fetching
              ELSE /\ fetching' = [fetching EXCEPT ![a] =
                                     [i \in UIsbns |-> IF i \in toFetch THEN "google" ELSE "none"]]
                   /\ isScanning' = TRUE
                   /\ UNCHANGED <<panel, renders>>

\* the map callback of scanPage ends for isbn i of activation a with info; when
\* it was the last one Promise.all settles: renderPanel and the finally block
FetchEnds(a, i, info) ==
  LET bd == [bookData EXCEPT ![i] = InfoOrSentinel(info, i)]
      left == [fetching[a] EXCEPT ![i] = "none"]
  IN  /\ bookData' = bd
      /\ fetching' = [fetching EXCEPT ![a] = left]
      /\ IF left = NoFetch
         THEN /\ panel' = bd
              /\ renders' = renders + 1
              /\ isScanning' = FALSE
         ELSE UNCHANGED <<panel, renders, isScanning>>

UsRest == <<storage, nreq, missed, procvars, xvars, csvars, dbvars, tabvars>>

\* init(): the first scanPage()
Bootstrap ==
  /\ ~booted
  /\ booted' = TRUE
  /\ calls' = calls + 1
  /\ scanPage(detectedISBNs, bookData)
  /\ UNCHANGED <<bodyText, timeoutId, bookCache, now, UsRest>>

\* the page changes; the MutationObserver callback calls debouncedScan() when a
\* qualifying node was added
PageMutation(t, shouldScan) ==
  /\ booted
  /\ t # bodyText
  /\ bodyText' = t
  /\ timeoutId' = (timeoutId \/ shouldScan)
  /\ UNCHANGED <<booted, detectedISBNs, bookData, isScanning, bookCache, fetching, panel,
                 calls, started, renders, now, UsRest>>

\* the timer of debouncedScan fires: scanPage()
DebounceFires ==
  /\ timeoutId
  /\ calls < MaxCalls
  /\ \E f \in Scans : ~ScanActive(f)
  /\ timeoutId' = FALSE
  /\ calls' = calls + 1
  /\ scanPage(detectedISBNs, bookData)
  /\ UNCHANGED <<booted, bodyText, bookCache, now, UsRest>>

\* click on goodie-scan-btn: both collections are cleared, then scanPage()
ClickScan ==
  /\ booted
  /\ calls < MaxCalls
  /\ \E f \in Scans : ~ScanActive(f)
  /\ calls' = calls + 1
  /\ scanPage(<<>>, NoBooks)
  /\ UNCHANGED <<booted, bodyText, timeoutId, bookCache, now, UsRest>>

\* fetchBookInfo of activation a for isbn i: the request to Google Books ends;
\* a book is cached and returned, otherwise Open Library is requested
GoogleBooksEnds(a, i, resp) ==
  /\ fetching[a][i] = "google"
  /\ LET b == fetchFromGoogleBooks(resp, i)
     IN  IF b.kind = "book"
         THEN /\ bookCache' = setCachedBook(bookCache, i, b, now)
              /\ FetchEnds(a, i, b)
         ELSE /\ fetching' = [fetching EXCEPT ![a][i] = "ol"]
              /\ UNCHANGED <<bookCache, bookData, panel, renders, isScanning>>
  /\ UNCHANGED <<booted, bodyText, detectedISBNs, timeoutId, calls, started, now, UsRest>>

\* fetchBookInfo of activation a for isbn i: the request to Open Library ends
OpenLibraryEnds(a, i, resp) ==
  /\ fetching[a][i] = "ol"
  /\ LET b == fetchFromOpenLibrary(resp, i)
     IN  /\ bookCache' = IF b.kind = "book" THEN setCachedBook(bookCache, i, b, now)
                         ELSE bookCache
         /\ FetchEnds(a, i, b)
  /\ UNCHANGED <<booted, bodyText, detectedISBNs, timeoutId, calls, started, now, UsRest>>

UsNext ==
  \/ Bootstrap
  \/ \E t \in UTexts, shouldScan \in BOOLEAN : PageMutation(t, shouldScan)
  \/ DebounceFires
  \/ ClickScan
  \/ \E a \in Scans, i \in UIsbns, resp \in GmResponses : GoogleBooksEnds(a, i, resp)
  \/ \E a \in Scans, i \in UIsbns, resp \in GmResponses : OpenLibraryEnds(a, i, resp)
  \/ TickMs
  \/ TickDay

UsStart ==
  /\ UsInit
  /\ CsIdle
  /\ DbIdle
  /\ TabIdle
  /\ BgInit
  /\ NotCalledYet
  /\ raw = <<>>
  /\ text = <<>>
  /\ extracted = <<>>
  /\ xpc = "done"

\* the userscript on one page
SpecUserscript == UsStart /\ [][UsNext]_vars

(***************************************************************************)
(* The userscript with a try block of scanPage that can throw              *)
(***************************************************************************)
\* scanPage() whose try block throws before anything is awaited (textContent
\* of a missing body, extractISBNs, or renderPanel in the nothing-new return):
\* the catch block logs and the finally block resets the flag
scanPageThrows(det, bd) ==
  /\ detectedISBNs' = det
  /\ bookData' = bd
  /\ IF ScanGuard(isScanning)
     THEN UNCHANGED <<isScanning, started>>
     ELSE /\ started' = started + 1
          /\ isScanning' = FALSE
  /\ UNCHANGED <<fetching, panel, renders>>

BootstrapThrows ==
  /\ ~booted
  /\ booted' = TRUE
  /\ calls' = calls + 1
  /\ scanPageThrows(detectedISBNs, bookData)
  /\ UNCHANGED <<bodyText, timeoutId, bookCache, now, UsRest>>

DebounceFiresThrows ==
  /\ timeoutId
  /\ calls < MaxCalls
  /\ timeoutId' = FALSE
  /\ calls' = calls + 1
  /\ scanPageThrows(detectedISBNs, bookData)
  /\ UNCHANGED <<booted, bodyText, bookCache, now, UsRest>>

ClickScanThrows ==
  /\ booted
  /\ calls < MaxCalls
  /\ calls' = calls + 1
  /\ scanPageThrows(<<>>, NoBooks)
  /\ UNCHANGED <<booted, bodyText, timeoutId, bookCache, now, UsRest>>

\* the mutant of FetchEndsRenderThrows without the finally block
FetchEndsRenderThrowsNoFinally(a, i, info) ==
  /\ [fetching[a] EXCEPT ![i] = "none"] = NoFetch
  /\ bookData' = [bookData EXCEPT ![i] = InfoOrSentinel(info, i)]
  /\ fetching' = [fetching EXCEPT ![a] = NoFetch]
  /\ UNCHANGED <<panel, renders, isScanning>>

\* the last map callback of activation a ends and renderPanel throws: the
\* catch block logs and the finally block resets the flag
FetchEndsRenderThrows(a, i, info) ==
  /\ [fetching[a] EXCEPT ![i] = "none"] = NoFetch
  /\ bookData' = [bookData EXCEPT ![i] = InfoOrSentinel(info, i)]
  /\ fetching' = [fetching EXCEPT ![a] = NoFetch]
  /\ isScanning' = FALSE
  /\ UNCHANGED <<panel, renders>>

\* the request to Google Books ends with a book, which is cached, and
\* renderPanel throws
GoogleBooksEndsRenderThrows(a, i, resp) ==
  /\ fetching[a][i] = "google"
  /\ LET b == fetchFromGoogleBooks(resp, i)
     IN  /\ b.kind = "book"
         /\ bookCache' = setCachedBook(bookCache, i, b, now)
         /\ FetchEndsRenderThrows(a, i, b)
  /\ UNCHANGED <<booted, bodyText, detectedISBNs, timeoutId, calls, started, now, UsRest>>

\* the request to Open Library ends and renderPanel throws
OpenLibraryEndsRenderThrows(a, i, resp) ==
  /\ fetching[a][i] = "ol"
  /\ LET b == fetchFromOpenLibrary(resp, i)
     IN  /\ bookCache' = IF b.kind = "book" THEN setCachedBook(bookCache, i, b, now)
                         ELSE bookCache
         /\ FetchEndsRenderThrows(a, i, b)
  /\ UNCHANGED <<booted, bodyText, detectedISBNs, timeoutId, calls, started, now, UsRest>>

\* a pending request of gmFetch is answered (onload or onerror)
SomeRequestEnds ==
  \E a \in Scans, i \in UIsbns, resp \in GmResponses :
    \/ GoogleBooksEnds(a, i, resp)
    \/ OpenLibraryEnds(a, i, resp)
    \/ GoogleBooksEndsRenderThrows(a, i, resp)
    \/ OpenLibraryEndsRenderThrows(a, i, resp)

\* the steps of the userscript within one day, with and without a throw
ScanNext ==
  \/ Bootstrap
  \/ \E t \in UTexts, shouldScan \in BOOLEAN : PageMutation(t, shouldScan)
  \/ DebounceFires
  \/ ClickScan
  \/ \E a \in Scans, i \in UIsbns, resp \in GmResponses : GoogleBooksEnds(a, i, resp)
  \/ \E a \in Scans, i \in UIsbns, resp \in GmResponses : OpenLibraryEnds(a, i, resp)
  \/ BootstrapThrows
  \/ DebounceFiresThrows
  \/ ClickScanThrows
  \/ \E a \in Scans, i \in UIsbns, resp \in GmResponses : GoogleBooksEndsRenderThrows(a, i, resp)
  \/ \E a \in Scans, i \in UIsbns, resp \in GmResponses : OpenLibraryEndsRenderThrows(a, i, resp)

SpecScan == UsStart /\ [][ScanNext]_vars

\* every request of gmFetch is answered in the end
SpecScanFair == SpecScan /\ WF_vars(SomeRequestEnds)

(***************************************************************************)
(* Specification of the extractor: every text, one call                    *)
(***************************************************************************)
XInit ==
  /\ text \in Texts
  /\ CsIdle
  /\ DbIdle
  /\ TabIdle
  /\ extracted = <<>>
  /\ xpc = "input"
  /\ BgInit
  /\ UsInit
  /\ bodyText = <<>>
  /\ NotCalledYet
  /\ raw = <<>>

CallExtract ==
  /\ xpc = "input"
  /\ extracted' = extractISBNs(text)
  /\ xpc' = "done"
  /\ UNCHANGED <<text, raw, fn, ret>>
  /\ UNCHANGED <<bgvars, usvars, csvars, dbvars, tabvars>>

XNext == CallExtract

SpecExtract == XInit /\ [][XNext]_vars

(***************************************************************************)
(* Specification of the other functions of isbn.js: every argument string, *)
(* one call of one function                                                *)
(***************************************************************************)
IInit ==
  /\ raw \in RawInputs
  /\ CsIdle
  /\ DbIdle
  /\ TabIdle
  /\ NotCalledYet
  /\ text = <<>>
  /\ extracted = <<>>
  /\ xpc = "done"
  /\ BgInit
  /\ UsInit
  /\ bodyText = <<>>

Returns(f, v) ==
  /\ fn = "none"
  /\ fn' = f
  /\ ret' = v
  /\ UNCHANGED <<raw, text, extracted, xpc, bgvars, usvars, csvars, dbvars, tabvars>>

CallValidateISBN10Checksum == Returns("validateISBN10Checksum", Bool(validateISBN10Checksum(raw)))

CallValidateISBN13Checksum == Returns("validateISBN13Checksum", Bool(validateISBN13Checksum(raw)))

CallIsValidISBN == Returns("isValidISBN", Bool(isValidISBN(raw)))

CallConvertISBN10ToISBN13 == Returns("convertISBN10ToISBN13", convertISBN10ToISBN13(raw))

CallFormatISBN == Returns("formatISBN", Str(formatISBN(raw)))

CallNormalizeISBN == Returns("normalizeISBN", Str(normalizeISBN(raw)))

\* the composition normalizeISBN(formatISBN(normalizeISBN(raw)))
CallNormalizeFormatNormalize ==
  Returns("normalizeFormatNormalize", Str(normalizeISBN(formatISBN(normalizeISBN(raw)))))

INext ==
  \/ CallValidateISBN10Checksum
  \/ CallValidateISBN13Checksum
  \/ CallIsValidISBN
  \/ CallConvertISBN10ToISBN13
  \/ CallFormatISBN
  \/ CallNormalizeISBN
  \/ CallNormalizeFormatNormalize

SpecIsbn == IInit /\ [][INext]_vars

(***************************************************************************)
(* The extension's content script: scanForISBNs and the handlers calling it *)
(***************************************************************************)
\* SCAN_PAGE and GET_DETECTED_BOOKS messages handled in one run
MaxResponses == 2

\* document.body.textContent of the page the content script runs in
CsTexts == UTexts \cup {TxtValid13}

CsPageISBNs == [t \in CsTexts |-> extractISBNs(t)]

\* the mutant of scanForISBNs that rebuilds the set from the page
scanForISBNsFresh(found) ==
  IF ScanGuard(isScanning)
  THEN /\ foundISBNs' = found
       /\ UNCHANGED sent
  ELSE LET isbns == CsPageISBNs[bodyText]
           newISBNs == SelectSeq(isbns, LAMBDA i : i \notin Range(found))
       IN  IF Len(newISBNs) > 0
           THEN /\ foundISBNs' = isbns
                /\ sent' = Append(sent, isbns)
           ELSE /\ foundISBNs' = isbns
                /\ UNCHANGED sent

\* scanForISBNs() on a set that holds found: the function is synchronous, so
\* isScanning, set at its start and reset in its finally block, is false again
\* when it returns
scanForISBNs(found) ==
  IF ScanGuard(isScanning)
  THEN /\ foundISBNs' = found
       /\ UNCHANGED sent
  ELSE LET isbns == CsPageISBNs[bodyText]
           newISBNs == SelectSeq(isbns, LAMBDA i : i \notin Range(found))
       IN  IF Len(newISBNs) > 0
           THEN /\ foundISBNs' = found \o newISBNs
                /\ sent' = Append(sent, found \o newISBNs)
           ELSE /\ foundISBNs' = found
                /\ UNCHANGED sent

CsRest == <<isScanning, detectedISBNs, bookData, bookCache, fetching, panel, calls, started,
            renders, bgvars, xvars, dbvars, tabvars>>

\* the timer set by init() when autoScan is on fires: scanForISBNs() and
\* initMutationObserver()
InitTimerFires ==
  /\ ~booted
  /\ booted' = TRUE
  /\ scanForISBNs(foundISBNs)
  /\ UNCHANGED <<bodyText, timeoutId, responses, CsRest>>

\* the page changes; handleMutations, once the observer exists, calls
\* debouncedScan() when a qualifying node was added
handleMutations(t, shouldScan) ==
  /\ t # bodyText
  /\ bodyText' = t
  /\ timeoutId' = (timeoutId \/ (booted /\ shouldScan))
  /\ UNCHANGED <<booted, foundISBNs, sent, responses, CsRest>>

\* the timer of debouncedScan fires: scanForISBNs()
debouncedScan ==
  /\ timeoutId
  /\ timeoutId' = FALSE
  /\ scanForISBNs(foundISBNs)
  /\ UNCHANGED <<booted, bodyText, responses, CsRest>>

\* handleMessage, message.type === SCAN_PAGE: foundISBNs.clear(), scanForISBNs(),
\* sendResponse({ success: true, count: foundISBNs.size })
handleMessageScanPage ==
  /\ Len(responses) < MaxResponses
  /\ scanForISBNs(<<>>)
  /\ responses' = Append(responses,
                         [type |-> "SCAN_PAGE", count |-> Len(foundISBNs'), isbns |-> <<>>])
  /\ UNCHANGED <<booted, bodyText, timeoutId, CsRest>>

\* handleMessage, message.type === GET_DETECTED_BOOKS:
\* sendResponse({ isbns: Array.from(foundISBNs) })
handleMessageGetDetectedBooks ==
  /\ Len(responses) < MaxResponses
  /\ responses' = Append(responses,
                         [type |-> "GET_DETECTED_BOOKS", count |-> 0, isbns |-> foundISBNs])
  /\ UNCHANGED <<booted, bodyText, timeoutId, foundISBNs, sent, CsRest>>

CsNext ==
  \/ InitTimerFires
  \/ \E t \in CsTexts, shouldScan \in BOOLEAN : handleMutations(t, shouldScan)
  \/ debouncedScan
  \/ handleMessageScanPage
  \/ handleMessageGetDetectedBooks

CsInit ==
  /\ CsIdle
  /\ DbIdle
  /\ TabIdle
  /\ BgInit
  /\ NotCalledYet
  /\ raw = <<>>
  /\ text = <<>>
  /\ extracted = <<>>
  /\ xpc = "done"
  /\ booted = FALSE
  /\ bodyText \in CsTexts
  /\ detectedISBNs = <<>>
  /\ bookData = NoBooks
  /\ isScanning = FALSE
  /\ timeoutId = FALSE
  /\ bookCache = NoBooks
  /\ fetching = [a \in Scans |-> NoFetch]
  /\ panel = NoBooks
  /\ calls = 0
  /\ started = 0
  /\ renders = 0

\* the content script on one page
SpecContent == CsInit /\ [][CsNext]_vars

(***************************************************************************)
(* debounce(func, delay): one debounced function and the browser's timers   *)
(***************************************************************************)
\* the largest delay, the last instant of the clock, the calls in one run
MaxDelay == 2
MaxTime == 4
MaxDebounced == 3

\* the argument lists the debounced function is called with
ArgLists == {"a", "b"}

\* the mutant of clearTimeout that leaves the timer armed
clearTimeoutKeeps(table, id) == table

\* clearTimeout(id): the timer, if it is still in the table, is removed
clearTimeout(table, id) == {t \in table : t.id # id}

\* setTimeout(callback, delay) at instant at: the callback applies func to args
setTimeout(table, id, at, d, args) == table \cup {[id |-> id, due |-> at + d, args |-> args]}

DbRest == <<bgvars, usvars, csvars, xvars, tabvars>>

\* debounced(...args): clearTimeout(timeoutId); timeoutId = setTimeout(..., delay)
debounced(args) ==
  /\ Len(dbCalls) < MaxDebounced
  /\ clock + delay <= MaxTime
  /\ LET id == Len(dbCalls) + 1
     IN  /\ timers' = setTimeout(clearTimeout(timers, dbTimeoutId), id, clock, delay, args)
         /\ dbTimeoutId' = id
  /\ dbCalls' = Append(dbCalls, [at |-> clock, args |-> args])
  /\ UNCHANGED <<delay, clock, invocations, DbRest>>

\* the event loop runs the callback of a timer that is due, at its due time or
\* later: func.apply(context, args)
TimerFires(t) ==
  /\ t \in timers
  /\ clock >= t.due
  /\ timers' = timers \ {t}
  /\ invocations' = Append(invocations,
                           [at |-> clock, args |-> t.args, after |-> Len(dbCalls)])
  /\ UNCHANGED <<delay, clock, dbTimeoutId, dbCalls, DbRest>>

\* a millisecond passes
ClockTick ==
  /\ clock < MaxTime
  /\ clock' = clock + 1
  /\ UNCHANGED <<delay, timers, dbTimeoutId, dbCalls, invocations, DbRest>>

SomeTimerFires == \E t \in timers : TimerFires(t)

DNext ==
  \/ \E args \in ArgLists : debounced(args)
  \/ SomeTimerFires
  \/ ClockTick

DInit ==
  /\ delay \in 0..MaxDelay
  /\ clock = 0
  /\ timers = {}
  /\ dbTimeoutId = 0
  /\ dbCalls = <<>>
  /\ invocations = <<>>
  /\ TabIdle
  /\ CsIdle
  /\ BgInit
  /\ UsInit
  /\ bodyText = <<>>
  /\ NotCalledYet
  /\ raw = <<>>
  /\ text = <<>>
  /\ extracted = <<>>
  /\ xpc = "done"

SpecDebounce == DInit /\ [][DNext]_vars

\* time passes, and the event loop runs the callback of a timer that is due
SpecDebounceFair == SpecDebounce /\ WF_vars(ClockTick) /\ WF_vars(SomeTimerFires)

(***************************************************************************)
(* The background's tab tracking: tabISBNs and the badge                    *)
(***************************************************************************)
\* data.isbns of an ISBNS_DETECTED message: Array.from(foundISBNs) after an add
DetectedLists ==
  {l \in UNION {[1..k -> UIsbns] : k \in 1..Cardinality(UIsbns)} :
     \A a, b \in 1..Len(l) : a # b => l[a] # l[b]}

\* sender.tab?.id, data.tabId: a tab, or 0 for undefined
TabIds == Tabs \cup {0}

\* the mutant of MapDelete that empties the whole Map
MapClear(map, tabId) == [t \in Tabs |-> NoList]

\* tabISBNs.delete(tabId)
MapDelete(map, tabId) == [map EXCEPT ![tabId] = NoList]

\* the mutant of updateBadge that shows the count also when it is zero
updateBadgeAlways(tabId, count) ==
  badge' = [badge EXCEPT ![tabId] = DigitChar(count)]

\* updateBadge(tabId, count): the text chrome.action.setBadgeText is given
updateBadge(tabId, count) ==
  badge' = [badge EXCEPT ![tabId] = IF count > 0 THEN DigitChar(count) ELSE ""]

TabRest == <<delivered, bgvars, usvars, csvars, dbvars, xvars>>

\* handleMessage, case ISBNS_DETECTED: handleISBNsDetected(data, sender.tab?.id)
handleISBNsDetected(isbns, tabId) ==
  /\ event' = [type |-> "ISBNS_DETECTED", tabId |-> tabId, status |-> "", url |-> FALSE]
  /\ IF tabId = 0
     THEN UNCHANGED <<tabISBNs, badge>>
     ELSE /\ tabISBNs' = [tabISBNs EXCEPT ![tabId] = Listed(isbns)]
          /\ updateBadge(tabId, Len(isbns))
  /\ UNCHANGED reply

\* chrome.tabs.onRemoved
handleTabClosed(tabId) ==
  /\ event' = [type |-> "onRemoved", tabId |-> tabId, status |-> "", url |-> FALSE]
  /\ tabISBNs' = MapDelete(tabISBNs, tabId)
  /\ UNCHANGED <<badge, reply>>

\* chrome.tabs.onUpdated with changeInfo.status and the presence of changeInfo.url
handleTabUpdated(tabId, status, url) ==
  /\ event' = [type |-> "onUpdated", tabId |-> tabId, status |-> status, url |-> url]
  /\ IF status = "loading" /\ url
     THEN /\ tabISBNs' = MapDelete(tabISBNs, tabId)
          /\ updateBadge(tabId, 0)
     ELSE UNCHANGED <<tabISBNs, badge>>
  /\ UNCHANGED reply

\* handleGetDetectedBooks(tabId), active being the id of the active tab (0: none);
\* books holds, for each book of the answer, the ISBN it was resolved for
handleGetDetectedBooks(tabId, active) ==
  LET id == IF tabId = 0 THEN active ELSE tabId
  IN  /\ event' = [type |-> "GET_DETECTED_BOOKS", tabId |-> id, status |-> "", url |-> FALSE]
      /\ reply' = IF id = 0
                  THEN [kind |-> "reply", tabId |-> id, success |-> FALSE, books |-> <<>>]
                  ELSE [kind |-> "reply", tabId |-> id, success |-> TRUE,
                        books |-> tabISBNs[id].isbns]
      /\ UNCHANGED <<tabISBNs, badge>>

TabsNext ==
  \/ \E isbns \in DetectedLists, tabId \in TabIds :
        handleISBNsDetected(isbns, tabId) /\ UNCHANGED TabRest
  \/ \E tabId \in Tabs : handleTabClosed(tabId) /\ UNCHANGED TabRest
  \/ \E tabId \in Tabs, status \in {"loading", "complete"}, url \in BOOLEAN :
        handleTabUpdated(tabId, status, url) /\ UNCHANGED TabRest
  \/ \E tabId \in TabIds, active \in TabIds :
        handleGetDetectedBooks(tabId, active) /\ UNCHANGED TabRest

TabsInit ==
  /\ TabIdle
  /\ DbIdle
  /\ CsIdle
  /\ BgInit
  /\ UsInit
  /\ bodyText = <<>>
  /\ NotCalledYet
  /\ raw = <<>>
  /\ text = <<>>
  /\ extracted = <<>>
  /\ xpc = "done"

\* the background and the events of the tabs
SpecTabs == TabsInit /\ [][TabsNext]_vars

(***************************************************************************)
(* One page: its content script and the background handling its messages    *)
(***************************************************************************)
\* sender.tab.id of the messages of the content script
CsTab == 1

\* the background handles the next ISBNS_DETECTED message of the content script
DeliverISBNsDetected ==
  /\ delivered < Len(sent)
  /\ delivered' = delivered + 1
  /\ handleISBNsDetected(sent[delivered + 1], CsTab)
  /\ UNCHANGED <<bgvars, usvars, csvars, dbvars, xvars>>

PageNext ==
  \/ CsNext
  \/ DeliverISBNsDetected

SpecPage == CsInit /\ [][PageNext]_vars

(***************************************************************************)
(* The cache lookups on one stored record                                   *)
(***************************************************************************)
\* the ISBN looked up
LookupIsbn == "0306406152"

\* what the cache can hold under the ISBN: nothing, or an object whose data is a
\* book or missing and whose timestamp is a number, or missing or no number (NaN)
StoredRecords ==
  {NoEntry} \cup
  {[kind |-> "entry", data |-> d, timestamp |-> ts] :
     d \in {Book(LookupIsbn, "Effective Java", "google-books"), NoEntry}, ts \in {0, 1, NaN}}

\* Date.now() at the lookup: around the timestamps and around the TTL after them
LookupClocks == {1, 2, CACHE_TTL_MS - 1, CACHE_TTL_MS, CACHE_TTL_MS + 1, CACHE_TTL_MS + 2}

LookupInputs == [cached : StoredRecords, now : LookupClocks]

\* the cache object that holds the record under the ISBN
CacheOf(record) == [EmptyCache EXCEPT ![LookupIsbn] = record]

\* getCachedBookInfo(isbn) of the extension
CallGetCachedBookInfo ==
  Returns("getCachedBookInfo", getCachedBookInfo(CacheOf(raw.cached), LookupIsbn, raw.now))

\* googleBooks.fetchBookInfo(isbn) up to the request: the cached data is
\* returned, or the request is issued
CallFetchBookInfo ==
  Returns("fetchBookInfo",
          LET cachedData == getCachedBookInfo(CacheOf(raw.cached), LookupIsbn, raw.now)
          IN  IF CacheHit(cachedData) THEN cachedData ELSE [kind |-> "request"])

\* getCachedBook(isbn) of the userscript
CallGetCachedBook ==
  Returns("getCachedBook", getCachedBook(CacheOf(raw.cached), LookupIsbn, raw.now))

LNext ==
  \/ CallGetCachedBookInfo
  \/ CallFetchBookInfo
  \/ CallGetCachedBook

LInit ==
  /\ raw \in LookupInputs
  /\ NotCalledYet
  /\ text = <<>>
  /\ extracted = <<>>
  /\ xpc = "done"
  /\ BgInit
  /\ UsInit
  /\ bodyText = <<>>
  /\ CsIdle
  /\ DbIdle
  /\ TabIdle

SpecLookup == LInit /\ [][LNext]_vars

(***************************************************************************)
(* The provider parsers on one raw response.  A JavaScript value is a      *)
(* record with its kind; an absent property is Undefined.                  *)
(***************************************************************************)
Undefined == [kind |-> "undefined"]

Num(n) == [kind |-> "number", value |-> n]

List(items) == [kind |-> "array", items |-> items]

\* the truthiness of a value: undefined, null, '' and 0 are falsy, objects and
\* arrays (the empty one too) are truthy
Truthy(v) ==
  CASE v.kind \in {"undefined", "null"} -> FALSE
    [] v.kind = "string" -> v.chars # ""
    [] v.kind = "number" -> v.value # 0
    [] OTHER -> TRUE

\* a || b
Or(a, b) == IF Truthy(a) THEN a ELSE b

\* items.map(e => e.name)
MapName(l) == List([k \in 1..Len(l.items) |-> l.items[k].name])

\* items.map(e => e.name || e).filter(Boolean)
MapNameOrSelf(l) ==
  List(SelectSeq([k \in 1..Len(l.items) |-> Or(l.items[k].name, l.items[k])], Truthy))

\* items[0]
First(l) == IF Len(l.items) > 0 THEN l.items[1] ELSE Undefined

\* o?.p for an object that may carry the property or a value that does not
OptName(o) == IF o.kind = "object" THEN o.name ELSE Undefined

OptValue(o) == IF o.kind = "object" THEN o.value ELSE Undefined

TextValues == {Undefined, Str("text")}

NumberValues == {Undefined, Num(412)}

\* imageLinks of a volume, cover of a bib-key record: absent, empty, or with
\* one of the sizes
ImageValues ==
  {Undefined} \cup
  {[kind |-> "object", first |-> a, second |-> b, third |-> Undefined] :
     a, b \in {Undefined, Str("https://img")}}

\* lists of objects with a name (authors, subjects, publishers of a bib-key
\* record; authors of an edition record, which carry a key only)
NamedLists ==
  {Undefined, List(<<>>), List(<<[kind |-> "object", name |-> Str("Joshua Bloch")]>>),
   List(<<[kind |-> "object", name |-> Undefined]>>)}

\* {} in volumeInfo = item.volumeInfo || {}
NoVolumeInfo ==
  [kind |-> "object", title |-> Undefined, authors |-> Undefined, description |-> Undefined,
   imageLinks |-> Undefined, publishedDate |-> Undefined, publisher |-> Undefined,
   pageCount |-> Undefined, categories |-> Undefined, language |-> Undefined]

\* data.items[0] of a Google Books response
GoogleItems ==
  {[kind |-> "google_item", volumeInfo |-> Undefined]} \cup
  {[kind |-> "google_item",
    volumeInfo |-> [kind |-> "object", title |-> t, authors |-> a, description |-> d,
                    imageLinks |-> il, publishedDate |-> d, publisher |-> d,
                    pageCount |-> n, categories |-> a, language |-> d]] :
     t \in TextValues, d \in TextValues, n \in NumberValues, il \in ImageValues,
     a \in {Undefined, List(<<Str("Joshua Bloch")>>)}}

\* data['ISBN:' + isbn] of the bib-key response of Open Library
OLBooksRecords ==
  {[kind |-> "ol_books", title |-> t, authors |-> a, cover |-> c, notes |-> d,
    subtitle |-> Undefined, publish_date |-> d, publishers |-> pub,
    number_of_pages |-> n, subjects |-> a] :
     t \in TextValues, d \in TextValues, n \in NumberValues, c \in ImageValues,
     a \in NamedLists, pub \in NamedLists}

\* the body of the per-ISBN response of Open Library
OLISBNRecords ==
  {[kind |-> "ol_isbn", title |-> t, authors |-> a, covers |-> c, description |-> d,
    publish_date |-> t, publishers |-> pub, number_of_pages |-> n, subjects |-> pub] :
     t \in TextValues, n \in NumberValues, a \in NamedLists,
     c \in {Undefined, List(<<>>), List(<<Num(12345)>>)},
     d \in TextValues \cup {[kind |-> "object", value |-> v] : v \in TextValues},
     pub \in {Undefined, List(<<>>), List(<<Str("text")>>)}}

ParserInputs == GoogleItems \cup OLBooksRecords \cup OLISBNRecords

\* parseGoogleBooksResponse(item, isbn): every field of the record
parseGoogleBooksResponseRecord(item, i) ==
  LET volumeInfo == Or(item.volumeInfo, NoVolumeInfo)
      imageLinks == Or(volumeInfo.imageLinks,
                       [kind |-> "object", first |-> Undefined, second |-> Undefined,
                        third |-> Undefined])
  IN  [kind |-> "book", isbn |-> Str(i),
       title |-> Or(volumeInfo.title, Str("Unknown Title")),
       authors |-> Or(volumeInfo.authors, List(<<>>)),
       description |-> Or(volumeInfo.description, Str("")),
       thumbnail |-> Or(Or(imageLinks.first, imageLinks.second), Str("")),
       publishedDate |-> Or(volumeInfo.publishedDate, Str("")),
       publisher |-> Or(volumeInfo.publisher, Str("")),
       pageCount |-> Or(volumeInfo.pageCount, Num(0)),
       categories |-> Or(volumeInfo.categories, List(<<>>)),
       language |-> Or(volumeInfo.language, Str("")),
       source |-> Str("google-books")]

\* parseOpenLibraryBooksResponse(data, isbn): every field of the record
parseOpenLibraryBooksResponseRecord(data, i) ==
  [kind |-> "book", isbn |-> Str(i),
   title |-> Or(data.title, Str("Unknown Title")),
   authors |-> IF Truthy(data.authors) THEN MapName(data.authors) ELSE List(<<>>),
   description |-> Or(Or(data.notes, data.subtitle), Str("")),
   thumbnail |-> IF Truthy(data.cover)
                 THEN Or(Or(data.cover.first, data.cover.second), data.cover.third)
                 ELSE Str(""),
   publishedDate |-> Or(data.publish_date, Str("")),
   publisher |-> IF Truthy(data.publishers)
                 THEN Or(OptName(First(data.publishers)), Str(""))
                 ELSE Str(""),
   pageCount |-> Or(data.number_of_pages, Num(0)),
   categories |-> IF Truthy(data.subjects) THEN MapName(data.subjects) ELSE List(<<>>),
   language |-> Str(""),
   source |-> Str("open-library")]

\* parseOpenLibraryISBNResponse(data, isbn): every field of the record
parseOpenLibraryISBNResponseRecord(data, i) ==
  LET authors == Or(data.authors, List(<<>>))
      coverId == IF Truthy(data.covers) /\ Len(data.covers.items) > 0
                 THEN data.covers.items[1] ELSE Null
  IN  [kind |-> "book", isbn |-> Str(i),
       title |-> Or(data.title, Str("Unknown Title")),
       authors |-> MapNameOrSelf(authors),
       description |-> Or(Or(OptValue(data.description), data.description), Str("")),
       thumbnail |-> IF Truthy(coverId)
                     THEN Str("https://covers.openlibrary.org/b/id/12345-M.jpg")
                     ELSE Str(""),
       publishedDate |-> Or(data.publish_date, Str("")),
       publisher |-> IF Truthy(data.publishers)
                     THEN Or(First(data.publishers), Str(""))
                     ELSE Str(""),
       pageCount |-> Or(data.number_of_pages, Num(0)),
       categories |-> Or(data.subjects, List(<<>>)),
       language |-> Str(""),
       source |-> Str("open-library")]

CallParseGoogleBooksResponse ==
  /\ raw.kind = "google_item"
  /\ Returns("parseGoogleBooksResponse", parseGoogleBooksResponseRecord(raw, LookupIsbn))

CallParseOpenLibraryBooksResponse ==
  /\ raw.kind = "ol_books"
  /\ Returns("parseOpenLibraryBooksResponse",
             parseOpenLibraryBooksResponseRecord(raw, LookupIsbn))

CallParseOpenLibraryISBNResponse ==
  /\ raw.kind = "ol_isbn"
  /\ Returns("parseOpenLibraryISBNResponse",
             parseOpenLibraryISBNResponseRecord(raw, LookupIsbn))

PNext ==
  \/ CallParseGoogleBooksResponse
  \/ CallParseOpenLibraryBooksResponse
  \/ CallParseOpenLibraryISBNResponse

PInit ==
  /\ raw \in ParserInputs
  /\ NotCalledYet
  /\ text = <<>>
  /\ extracted = <<>>
  /\ xpc = "done"
  /\ BgInit
  /\ UsInit
  /\ bodyText = <<>>
  /\ CsIdle
  /\ DbIdle
  /\ TabIdle

SpecParse == PInit /\ [][PNext]_vars

(***************************************************************************)
(* Claims about extractISBNs, checked under SpecExtract                    *)
(***************************************************************************)
\* no whitespace, no hyphen, uppercase
IsNormalized(s) == \A k \in 1..Len(s) : ~IsSep(s[k]) /\ UpperChar(s[k]) = s[k]

\* the normalized forms of the substrings of t that have the shape of an ISBN
\* (the body of one of the two patterns matches at some position)
ShapedCandidates(t) ==
  {normalizeISBN(SubSeq(t, q, Body13(t, q) - 1)) : q \in {p \in 1..Len(t) : Body13(t, p) # 0}}
  \cup
  {normalizeISBN(SubSeq(t, q, Body10(t, q) - 1)) : q \in {p \in 1..Len(t) : Body10(t, p) # 0}}

Occurrences(s, v) == Cardinality({i \in 1..Len(s) : s[i] = v})

\* C10: the output of extractISBNs holds no value twice, and every identifier the
\* two loops accept, however often and in whatever formatting it was matched,
\* is in the output exactly once.
C10_ExtractedDistinct ==
  xpc = "done" =>
    /\ \A i, j \in 1..Len(extracted) : i # j => extracted[i] # extracted[j]
    /\ \A v \in Range(AcceptedMatches(text, 1, 13) \o AcceptedMatches(text, 1, 10)) :
         Occurrences(extracted, v) = 1

\* the same identifier was accepted from two matches of the text
C10_Witness ==
  /\ xpc = "done"
  /\ \E v \in Range(extracted) :
       Occurrences(AcceptedMatches(text, 1, 13) \o AcceptedMatches(text, 1, 10), v) >= 2

\* the identifier v is written at position q of t (the body of the pattern for
\* its length matches there and normalizes to v)
WrittenAt(t, q, v) ==
  /\ Body(t, q, Len(v)) # 0
  /\ normalizeISBN(SubSeq(t, q, Body(t, q, Len(v)) - 1)) = v

\* the first position of t at which v is written
FirstOccurrence(t, v) ==
  CHOOSE q \in 1..Len(t) : WrittenAt(t, q, v) /\ \A r \in 1..(q - 1) : ~WrittenAt(t, r, v)

\* the index of the first element of s that equals v
FirstIndex(s, v) == CHOOSE k \in 1..Len(s) : s[k] = v /\ \A m \in 1..(k - 1) : s[m] # v

\* C11 (as amended): in the output of extractISBNs every 13-character
\* identifier comes before every 10-character identifier; the 13-character
\* ones are in the order in which the ISBN-13 scan first accepts them and the
\* 10-character ones in the order in which the ISBN-10 scan first accepts them.
C11_OrderByScan ==
  xpc = "done" =>
    \A i, j \in 1..Len(extracted) :
      i < j =>
        \/ Len(extracted[i]) = 13 /\ Len(extracted[j]) = 10
        \/ /\ Len(extracted[i]) = Len(extracted[j])
           /\ LET am == AcceptedMatches(text, 1, Len(extracted[i]))
              IN  /\ extracted[i] \in Range(am)
                  /\ extracted[j] \in Range(am)
                  /\ FirstIndex(am, extracted[i]) < FirstIndex(am, extracted[j])

\* a 10-character identifier written before a 13-character one is after it in
\* the output
C11_Witness ==
  /\ xpc = "done"
  /\ \E i, j \in 1..Len(extracted) :
       /\ i < j
       /\ Len(extracted[i]) = 13
       /\ Len(extracted[j]) = 10
       /\ FirstOccurrence(text, extracted[j]) < FirstOccurrence(text, extracted[i])

\* C11 as stated: the identifiers of the output are in the order of their first
\* occurrence in the text, whatever their length.
C11_Original ==
  xpc = "done" =>
    \A i, j \in 1..Len(extracted) :
      i < j => FirstOccurrence(text, extracted[i]) <= FirstOccurrence(text, extracted[j])

\* the n characters of t from position q are an unbroken ISBN of length n (digits,
\* the last of an ISBN-10 may be X or x) that passes the checksum, with no
\* digit directly before or after
DelimitedISBN(t, q, n) ==
  /\ q + n - 1 <= Len(t)
  /\ \A k \in q..(q + n - 2) : t[k] \in Digits
  /\ t[q + n - 1] \in (IF n = 10 THEN Digits \cup {"X", "x"} ELSE Digits)
  /\ isValidISBN(SubSeq(t, q, q + n - 1))
  /\ CharAt(t, q - 1) \notin Digits
  /\ CharAt(t, q + n) \notin Digits

RECURSIVE AcceptedAt(_, _, _)
AcceptedAt(t, q, n) ==
  IF q > Len(t) THEN <<>>
  ELSE LET e == MatchAt(t, q, n)
       IN  IF e = 0 THEN AcceptedAt(t, q + 1, n)
           ELSE LET v == normalizeISBN(StripLabel(SubSeq(t, q, e - 1), n))
                IN  (IF Len(v) = n /\ isValidISBN(v) THEN <<[pos |-> q, isbn |-> v]>> ELSE <<>>)
                      \o AcceptedAt(t, e, n)

\* the position of the first accepted match of v in t
FirstMatch(t, v) ==
  LET at == {m.pos : m \in {a \in Range(AcceptedAt(t, 1, Len(v))) : a.isbn = v}}
  IN  CHOOSE q \in at : \A r \in at : q <= r

\* C35: the output of extractISBNs lists every accepted 13-character ISBN, in
\* the order of its first match in the text, before every accepted
\* 10-character ISBN, in the order of its first match in the text; a
\* 13-character ISBN and a 10-character one found inside it or elsewhere are
\* separate entries, never merged.
C35_ThirteenThenTenUnmerged ==
  xpc = "done" =>
    LET a13 == {m.isbn : m \in Range(AcceptedAt(text, 1, 13))}
        a10 == {m.isbn : m \in Range(AcceptedAt(text, 1, 10))}
    IN  /\ Range(extracted) = a13 \cup a10
        /\ Len(extracted) = Cardinality(a13) + Cardinality(a10)
        /\ \A i, j \in 1..Len(extracted) :
             i < j =>
               \/ Len(extracted[i]) = 13 /\ Len(extracted[j]) = 10
               \/ /\ Len(extracted[i]) = Len(extracted[j])
                  /\ FirstMatch(text, extracted[i]) < FirstMatch(text, extracted[j])

\* the output holds a 13-character identifier and the 10-character identifier
\* that its first ten characters form
C35_Witness ==
  /\ xpc = "done"
  /\ \E i, j \in 1..Len(extracted) :
       /\ Len(extracted[i]) = 13
       /\ Len(extracted[j]) = 10
       /\ SubSeq(extracted[i], 1, 10) = extracted[j]
  /\ \E k \in 1..Len(extracted) : extracted[k] = TxtValid10

(***************************************************************************)
(* Claims about the other functions of isbn.js, checked under SpecIsbn     *)
(***************************************************************************)
\* the value of the character at position k (1-based) of an ISBN-10
Value10(s, k) == IF s[k] = "X" THEN 10 ELSE DigitVal[s[k]]

\* the ISBN-10 condition: ten characters, nine digits and a digit or X, the
\* sum of digit(i) * (10 - i) over the 0-based positions divisible by 11
WellFormed10(s) ==
  /\ Len(s) = 10
  /\ \A k \in 1..9 : s[k] \in Digits
  /\ s[10] \in Digits \cup {"X"}
  /\ (10 * Value10(s, 1) + 9 * Value10(s, 2) + 8 * Value10(s, 3) + 7 * Value10(s, 4)
        + 6 * Value10(s, 5) + 5 * Value10(s, 6) + 4 * Value10(s, 7) + 3 * Value10(s, 8)
        + 2 * Value10(s, 9) + Value10(s, 10)) % 11 = 0

WellFormed13(s) ==
  /\ Len(s) = 13
  /\ \A k \in 1..13 : s[k] \in Digits
  /\ (DigitVal[s[1]] + DigitVal[s[3]] + DigitVal[s[5]] + DigitVal[s[7]] + DigitVal[s[9]]
        + DigitVal[s[11]] + DigitVal[s[13]]
        + 3 * (DigitVal[s[2]] + DigitVal[s[4]] + DigitVal[s[6]] + DigitVal[s[8]]
                + DigitVal[s[10]] + DigitVal[s[12]])) % 10 = 0

C15_ConvertedIsValid13 ==
  (fn = "convertISBN10ToISBN13" /\ validateISBN10Checksum(normalizeISBN(raw))) =>
    /\ ret.kind = "string"
    /\ Len(ret.chars) = 13
    /\ \A k \in 1..13 : ret.chars[k] \in Digits
    /\ SubSeq(ret.chars, 1, 3) = <<"9", "7", "8">>
    /\ SubSeq(ret.chars, 4, 12) = SubSeq(normalizeISBN(raw), 1, 9)
    /\ validateISBN13Checksum(ret.chars)
    /\ isValidISBN(ret.chars)

\* a hyphenated ISBN-10 with check digit X was converted
C15_Witness ==
  /\ fn = "convertISBN10ToISBN13"
  /\ ret.kind = "string"
  /\ raw = TxtFmtX10

C17_FormatRoundTrip ==
  (fn = "normalizeFormatNormalize" /\ Len(normalizeISBN(raw)) \in {10, 13}) =>
    ret = Str(normalizeISBN(raw))

\* the round trip was taken from an ISBN-13 written with spaces
C17_Witness ==
  /\ fn = "normalizeFormatNormalize"
  /\ raw = TxtSpaced13
  /\ ret = Str(TxtValid13)

\* the groups of a string, given the position of the last character of each,
\* joined by hyphens
RECURSIVE Hyphenated(_, _, _)
Hyphenated(s, from, ends) ==
  IF Len(ends) = 1 THEN SubSeq(s, from, Head(ends))
  ELSE SubSeq(s, from, Head(ends)) \o <<"-">> \o Hyphenated(s, Head(ends) + 1, Tail(ends))

\* C18: formatISBN(raw) is the normalized form in hyphen-separated groups of
\* sizes 3-1-3-5-1 when its length is 13 and of sizes 1-3-5-1 when it is 10,
\* whatever the checksum; for every other normalized length it is raw itself.
C18_FormatGroups ==
  fn = "formatISBN" =>
    LET n == normalizeISBN(raw)
    IN  ret = Str(IF Len(n) = 13 THEN Hyphenated(n, 1, <<3, 4, 7, 12, 13>>)
                  ELSE IF Len(n) = 10 THEN Hyphenated(n, 1, <<1, 4, 9, 10>>)
                  ELSE raw)

\* a string of another length that normalization would change came back as it was
C18_Witness ==
  /\ fn = "formatISBN"
  /\ Len(normalizeISBN(raw)) \notin {10, 13}
  /\ normalizeISBN(raw) # raw
  /\ ret = Str(raw)

(***************************************************************************)
(* Claims about the content script, checked under SpecContent              *)
(***************************************************************************)
\* the step is the handling of a SCAN_PAGE message
ScanPageStep ==
  /\ Len(responses') = Len(responses) + 1
  /\ responses'[Len(responses')].type = "SCAN_PAGE"

\* C19: between two explicit rescans the detected set only grows: a step that
\* is not the handling of SCAN_PAGE removes no element of foundISBNs, even one
\* that is no longer in the page text; the handling of SCAN_PAGE empties the set
\* completely before it scans: afterwards it holds what the page holds and
\* nothing else.
C19_GrowsUntilRescan ==
  [][/\ ~ScanPageStep => Range(foundISBNs) \subseteq Range(foundISBNs')
     /\ ScanPageStep => foundISBNs' = CsPageISBNs[bodyText]]_vars

\* an automatic scan added an ISBN and kept one that the page no longer shows
C19_Witness ==
  /\ foundISBNs = <<TxtValid10, TxtValid13>>
  /\ bodyText = TxtValid13
  /\ sent = <<<<TxtValid10>>, <<TxtValid10, TxtValid13>>>>
  /\ responses = <<>>

(***************************************************************************)
(* Claims about debounce, checked under SpecDebounceFair                   *)
(***************************************************************************)
\* the invocations of func made while call k was the most recent call
InvocationsAfter(k) == {j \in 1..Len(invocations) : invocations[j].after = k}

\* func is invoked only after a call, when delay has elapsed since the most
\* recent call, with the arguments of that call, and once per such call
InvokedOnlyWhenQuiet ==
  /\ \A j \in 1..Len(invocations) :
       LET v == invocations[j]
       IN  /\ v.after >= 1
           /\ v.at - dbCalls[v.after].at >= delay
           /\ v.args = dbCalls[v.after].args
  /\ \A k \in 1..Len(dbCalls) : Cardinality(InvocationsAfter(k)) <= 1
  /\ \A k \in 1..(Len(dbCalls) - 1) :
       dbCalls[k + 1].at - dbCalls[k].at < delay => InvocationsAfter(k) = {}

\* C20: func is invoked only when delay has elapsed since the most recent call
\* of the debounced function, with no call in between; calls that each come
\* less than delay after the previous one give no invocation before the last of
\* them, and the last call is followed by exactly one invocation, with its
\* arguments, unless a further call comes first.
C20_DebounceQuietPeriod ==
  /\ []InvokedOnlyWhenQuiet
  /\ \A k \in 1..MaxDebounced :
       (Len(dbCalls) = k) ~> (Len(dbCalls) > k \/ InvocationsAfter(k) # {})

\* three calls in a burst, with different arguments, gave one invocation
C20_Witness ==
  /\ Len(dbCalls) = 3
  /\ delay > 0
  /\ dbCalls[2].at - dbCalls[1].at < delay
  /\ dbCalls[3].at - dbCalls[2].at < delay
  /\ dbCalls[1].args # dbCalls[3].args
  /\ Len(invocations) = 1
  /\ invocations[1].args = dbCalls[3].args

(***************************************************************************)
(* Claims about the background's tab tracking, checked under SpecTabs      *)
(***************************************************************************)
\* the event handled in this step is the closing of a tab or the start of its
\* loading of a new URL
TabGone(e) ==
  \/ e.type = "onRemoved"
  \/ e.type = "onUpdated" /\ e.status = "loading" /\ e.url

\* C21: when a tab is closed or starts loading a new URL the background drops
\* its list and leaves the lists of the other tabs as they were; a tab without a
\* list gets one only by an ISBNS_DETECTED message of that tab; GET_DETECTED_BOOKS
\* for a tab without a list answers with an empty book list.
C21_TabListDropped ==
  [][/\ TabGone(event') =>
          /\ tabISBNs'[event'.tabId] = NoList
          /\ \A t \in Tabs \ {event'.tabId} : tabISBNs'[t] = tabISBNs[t]
     /\ \A t \in Tabs :
          (tabISBNs[t] = NoList /\ tabISBNs'[t] # NoList) =>
            (event'.type = "ISBNS_DETECTED" /\ event'.tabId = t)
     /\ (event'.type = "GET_DETECTED_BOOKS" /\ event'.tabId # 0
           /\ tabISBNs[event'.tabId] = NoList) =>
          (reply'.success /\ reply'.books = <<>>)]_vars

\* a tab that had a list (its badge still shows the count) was closed while
\* another tab has a list
C21_Witness ==
  /\ event.type = "onRemoved"
  /\ badge[event.tabId] # ""
  /\ tabISBNs[event.tabId] = NoList
  /\ \E t \in Tabs : tabISBNs[t].has

\* the decimal count of the ISBNs of a tab's list, or the empty string for no
\* list or an empty one
CountText(l) == IF l.has /\ Len(l.isbns) > 0 THEN DigitChar(Len(l.isbns)) ELSE ""

\* the event was an ISBNS_DETECTED message of a tab or a navigation of a tab
\* to another URL
BadgeEvent(e) ==
  \/ e.type = "ISBNS_DETECTED" /\ e.tabId # 0
  \/ e.type = "onUpdated" /\ e.status = "loading" /\ e.url

\* C36: after every ISBNS_DETECTED message and every navigation of a tab the
\* background handles, the badge text of that tab is the decimal count of the
\* ISBNs stored for it, and the empty string when the count is zero or the tab
\* has no list; the badges of the other tabs are left as they are.
C36_BadgeShowsCount ==
  [][BadgeEvent(event') =>
       /\ badge'[event'.tabId] = CountText(tabISBNs'[event'.tabId])
       /\ \A t \in Tabs \ {event'.tabId} : badge'[t] = badge[t]]_vars

\* a tab with a badge has navigated and its badge is empty, while another tab
\* shows the count of its two ISBNs
C36_Witness ==
  /\ event.type = "onUpdated"
  /\ event.status = "loading"
  /\ event.url
  /\ badge[event.tabId] = ""
  /\ ~tabISBNs[event.tabId].has
  /\ \E t \in Tabs : badge[t] = "2" /\ Len(tabISBNs[t].isbns) = 2

(***************************************************************************)
(* Claims about a page and the background, checked under SpecPage          *)
(***************************************************************************)
\* the last message the content script answered was SCAN_PAGE, the set still is
\* what the page's text holds, and the background has handled every message
RescanSettled ==
  /\ Len(responses) > 0
  /\ responses[Len(responses)].type = "SCAN_PAGE"
  /\ foundISBNs = CsPageISBNs[bodyText]
  /\ delivered = Len(sent)

\* C23: after an explicit rescan has been handled and every message sent has
\* been delivered, the list the background holds for the tab is the list of
\* ISBNs that extractISBNs finds in the page's text, also when that text holds
\* no valid ISBN.
C23_BackgroundMatchesPage ==
  RescanSettled => tabISBNs[CsTab].isbns = CsPageISBNs[bodyText]

(***************************************************************************)
(* Claims about the cache lookups, checked under SpecLookup                *)
(***************************************************************************)
\* the stored record is an object with data and a numeric timestamp
WellShaped(record) ==
  /\ record.kind = "entry"
  /\ record.data.kind = "book"
  /\ record.timestamp # NaN

\* C26: a stored record of unexpected shape (not an object with both data and a
\* numeric timestamp) is a cache miss: the extension's lookup reports absent and
\* fetchBookInfo goes on to the request.
C26_CorruptRecordIsMiss ==
  (raw.cached.kind = "entry" /\ ~WellShaped(raw.cached)) =>
    /\ fn = "getCachedBookInfo" => ret.kind \in {"null", "undefined"}
    /\ fn = "fetchBookInfo" => ret.kind = "request"

\* the lookup returned metadata (a hit)
IsHit(v) == v.kind = "book"

\* C31: getCachedBook of the userscript and getCachedBookInfo of the extension
\* are equivalent: for every stored record and every clock value they agree on
\* hit or miss and on the data returned.
C31_LookupsAgree ==
  fn = "getCachedBook" =>
    LET info == getCachedBookInfo(CacheOf(raw.cached), LookupIsbn, raw.now)
    IN  /\ IsHit(ret) = IsHit(info)
        /\ IsHit(ret) => ret = info

(***************************************************************************)
(* Claims about the provider parsers, checked under SpecParse              *)
(***************************************************************************)
MetadataFields ==
  {"isbn", "title", "authors", "description", "thumbnail", "publishedDate", "publisher",
   "pageCount", "categories", "language", "source"}

Parsers ==
  {"parseGoogleBooksResponse", "parseOpenLibraryBooksResponse", "parseOpenLibraryISBNResponse"}

\* the raw title, authors and page count of the response
RawTitle ==
  IF raw.kind = "google_item" THEN Or(raw.volumeInfo, NoVolumeInfo).title ELSE raw.title

RawAuthors ==
  IF raw.kind = "google_item" THEN Or(raw.volumeInfo, NoVolumeInfo).authors ELSE raw.authors

RawPages ==
  IF raw.kind = "google_item" THEN Or(raw.volumeInfo, NoVolumeInfo).pageCount
  ELSE raw.number_of_pages

\* C33: for every raw response, also with optional fields or nested objects
\* missing or empty, every field of the record a parser builds is defined and
\* non-null; a missing text field becomes the empty string, a missing list the
\* empty sequence, a missing number zero.
C33_ParsedFieldsDefined ==
  fn \in Parsers =>
    /\ \A f \in MetadataFields : ret[f].kind \notin {"undefined", "null"}
    /\ RawTitle = Undefined => ret.title = Str("")
    /\ RawAuthors = Undefined => ret.authors = List(<<>>)
    /\ RawPages = Undefined => ret.pageCount = Num(0)

(***************************************************************************)
(* Claims about the resolver, checked under SpecResolver                   *)
(***************************************************************************)
Done(p) == pc[p] = "done"

Did(p, e) == e \in Range(hist[p])

ProviderRequests == {"google_request", "books_request", "isbn_request"}

\* Google Books gave nothing and neither did Open Library (both its endpoints)
BothMissed(p) == Did(p, "google_miss") /\ Did(p, "isbn_miss")

\* C1: whenever the cache misses and Google Books throws, answers with a
\* non-success status, returns an unparseable body or returns zero items, Open
\* Library is invoked for the same ISBN, and if it yields metadata that
\* metadata is the result of the resolver.
C1_FallbackToOpenLibrary ==
  \A p \in Procs :
    Did(p, "google_miss") =>
      /\ Did(p, "cache_miss")
      /\ Did(p, "openLibrary.fetchBookInfo")
      /\ (Done(p) /\ olRet[p].kind = "book") =>
            /\ olRet[p].isbn = isbn[p]
            /\ result[p].success
            /\ result[p].book = olRet[p]

\* Google Books failed, Open Library's bib-key request gave a record, and the
\* resolution ended with it
C1_Witness ==
  \E p \in Procs :
    /\ Done(p)
    /\ Did(p, "google_miss")
    /\ Did(p, "books_book")
    /\ olRet[p].source = "open-library"
    /\ result[p].book = olRet[p]

\* C2 (as amended): when both providers miss, the caller receives the sentinel
\* (source 'none', title 'Details Unavailable'); the step that ends such a
\* resolution leaves the cache as it is and the resolution never called
\* setLocalStorage, so no entry of the cache ever holds the sentinel; and a
\* resolution of an ISBN that missed before, whose own cache lookup misses,
\* requests Google Books again.
C2_MissIsNotCached ==
  /\ [](/\ \A p \in Procs :
            (Done(p) /\ BothMissed(p)) =>
              /\ bookOut[p] = [kind |-> "book", isbn |-> isbn[p],
                               title |-> "Details Unavailable", source |-> "none"]
              /\ ~Did(p, "setLocalStorage")
        /\ \A i \in Isbns : storage[i].kind = "entry" => storage[i].data.source # "none"
        /\ \A p \in Procs :
            (missedAtStart[p] /\ Did(p, "cache_miss")) => Did(p, "google_request"))
  /\ [][\A p \in Procs :
          (~Done(p) /\ pc'[p] = "done" /\ ~result'[p].success) => storage' = storage]_vars

\* an ISBN that missed at both providers is resolved again, its lookup misses
\* and Google Books is asked again
C2_Witness ==
  \E p \in Procs :
    /\ missedAtStart[p]
    /\ Done(p)
    /\ BothMissed(p)
    /\ bookOut[p].source = "none"
    /\ storage[isbn[p]].kind = "undefined"

\* C2 as stated: when both providers miss, the caller receives the sentinel, a
\* lookup in the cache finds nothing for that ISBN afterwards, and a later
\* resolution of the same ISBN requests the providers again.
C2_Original ==
  /\ \A p \in Procs :
       (Done(p) /\ BothMissed(p)) =>
         /\ bookOut[p].source = "none"
         /\ bookOut[p].title = "Details Unavailable"
         /\ getCachedBookInfo(storage, isbn[p], now).kind = "null"
  /\ \A p \in Procs :
       (Done(p) /\ missedAtStart[p]) => Did(p, "google_request")

\* C3 (as amended): if the cache lookup of googleBooks.fetchBookInfo reads an
\* unexpired entry for the ISBN, the resolution ends at once with that entry's
\* data and no request to a provider is issued.
C3_HitSkipsProviders ==
  \A p \in Procs :
    seenData[p].kind = "book" =>
      /\ Done(p)
      /\ result[p].success
      /\ result[p].book = seenData[p]
      /\ Range(hist[p]) \cap ProviderRequests = {}
      /\ ~Did(p, "openLibrary.fetchBookInfo")

\* a resolution that started with an unexpired entry in the cache, read it and
\* ended with it
C3_Witness ==
  \E p \in Procs :
    /\ Done(p)
    /\ startData[p].kind = "book"
    /\ seenData[p] = startData[p]
    /\ result[p].book = startData[p]

\* C3 as stated: if the cache holds an unexpired entry for the ISBN when the
\* resolution starts, the resolution returns that entry's data and issues no
\* request.
C3_Original ==
  \A p \in Procs :
    (Done(p) /\ startData[p].kind = "book") =>
      /\ result[p].book = startData[p]
      /\ Range(hist[p]) \cap ProviderRequests = {}

\* C4: whatever the providers answer and whether the storage reads and writes
\* succeed or fail, a resolution that has ended has ended with metadata or with
\* the not-found result, never with the result of the catch block of
\* handleFetchBookInfo, and the caller holds a book record for it.
C4_EndsWithBookOrNotFound ==
  \A p \in Procs :
    Done(p) =>
         \/ /\ result[p].success
            /\ result[p].book.kind = "book"
            /\ result[p].book.isbn = isbn[p]
            /\ bookOut[p] = result[p].book
         \/ /\ ~result[p].success
            /\ result[p].error = "Book metadata not found"
            /\ bookOut[p].kind = "book"
            /\ bookOut[p].source = "none"

\* Google Books failed, a storage call failed, and the resolution has ended
C4_Witness ==
  \E p \in Procs :
    /\ Done(p)
    /\ Did(p, "google_miss")
    /\ fault[p]
    /\ Did(p, "store_failed")
    /\ result[p].success

\* C5 as stated: when the resolutions of one GET_DETECTED_BOOKS message have all
\* ended, each with metadata from a provider and no storage call having
\* failed, the cache holds an entry for each of their ISBNs.
C5_AllCached ==
  \A g \in 1..MaxRequests :
    LET members == {p \in Procs : grp[p] = g}
    IN  (\A p \in members : Done(p) /\ Did(p, "stored") /\ ~fault[p]) =>
          \A p \in members : storage[isbn[p]].kind = "entry"

\* what a lookup of i at time t has to return given the cache object read
ExpectedLookup(cache, i, t) ==
  IF cache[i].kind = "entry" /\ t - cache[i].timestamp <= 24 * 60 * 60 * 1000
  THEN cache[i].data
  ELSE [kind |-> "null"]

\* C6: a cache lookup whose storage read succeeds returns the stored data if
\* and only if an entry exists for the ISBN and now - timestamp <= 24 hours,
\* and absent otherwise; an entry of age exactly the TTL is a hit.  (Both
\* lookups: the one of googleBooks and the one of openLibrary.)
C6_LookupWithinTTL ==
  [][\A p \in Procs :
       /\ (pc[p] = "g_cache" /\ pc'[p] # "g_cache" /\ ~fault'[p]) =>
             /\ seenData'[p] = ExpectedLookup(storage, isbn[p], now)
             /\ (pc'[p] = "done") = (ExpectedLookup(storage, isbn[p], now).kind = "book")
       /\ (pc[p] = "ol_cache" /\ pc'[p] # "ol_cache" /\ ~fault'[p]) =>
             IF ExpectedLookup(storage, isbn[p], now).kind = "book"
             THEN pc'[p] = "done" /\ result'[p].book = ExpectedLookup(storage, isbn[p], now)
             ELSE pc'[p] = "ol_books"]_vars

\* a lookup has returned an entry whose age is exactly the TTL
C6_Witness ==
  \E p \in Procs :
    /\ Done(p)
    /\ ~fault[p]
    /\ seenData[p].kind = "book"
    /\ storage[isbn[p]].kind = "entry"
    /\ now - storage[isbn[p]].timestamp = CACHE_TTL_MS

\* C7: a cache write for an ISBN puts, whatever entry the cache held for it, a
\* new entry with the given metadata and the time of the assignment as
\* timestamp; when the write has taken effect the cache holds that entry and
\* a lookup made at once returns exactly that metadata.
C7_WriteReplaces ==
  [][\A p \in Procs :
       /\ (pc[p] = "put_read" /\ pc'[p] = "put_write") =>
             wr'[p][isbn[p]] = [kind |-> "entry", data |-> book[p], timestamp |-> now]
       /\ (pc[p] = "put_write" /\ pc'[p] = "done" /\ Did(p, "stored")') =>
             /\ storage'[isbn[p]].data = book[p]
             /\ storage'[isbn[p]].timestamp = wr[p][isbn[p]].timestamp
             /\ ExpectedLookup(storage', isbn[p], now').kind = "book"
             /\ getCachedBookInfo(storage', isbn[p], now') = book[p]]_vars

\* a write has replaced the unexpired entry the cache held when the resolution
\* started by other metadata
C7_Witness ==
  \E p \in Procs :
    /\ Done(p)
    /\ Did(p, "stored")
    /\ startData[p].kind = "book"
    /\ storage[isbn[p]].kind = "entry"
    /\ storage[isbn[p]].data = book[p]
    /\ storage[isbn[p]].data # startData[p]

\* C24: once the cache holds an entry for an ISBN with timestamp t, no later
\* cache state holds an entry for that ISBN with an older timestamp; stated for
\* every step: an entry that is there before and after has not grown older.
C24_TimestampsNeverRegress ==
  [][\A i \in Isbns :
       (storage[i].kind = "entry" /\ storage'[i].kind = "entry") =>
         storage'[i].timestamp >= storage[i].timestamp]_vars

\* C25: a failure of the storage read or of the storage write inside
\* cacheBookInfo is swallowed and leaves the entries of the other ISBNs in the
\* cache: in the step in which cacheBookInfo ends in a resolution that met a
\* storage failure, the resolver returns the fetched metadata and every entry of
\* another ISBN is what it was.
C25_FailedCachingKeepsOthers ==
  [][\A p \in Procs :
       (pc[p] = "put_write" /\ pc'[p] = "done" /\ fault'[p]) =>
         /\ result'[p].success
         /\ result'[p].book = book[p]
         /\ \A i \in Isbns \ {isbn[p]} : storage'[i] = storage[i]]_vars

\* event a is recorded before event b in the resolution p
Before(p, a, b) ==
  \E i, j \in 1..Len(hist[p]) : i < j /\ hist[p][i] = a /\ hist[p][j] = b

\* C27: within one resolution the steps run in the order cache lookup, Google
\* Books, Open Library: the Google Books request is issued only after the cache
\* lookup missed, Open Library is invoked and requested only after Google Books
\* has completed without metadata, and when Google Books returns metadata Open
\* Library is never invoked.
C27_CacheThenPrimaryThenSecondary ==
  \A p \in Procs :
    /\ Did(p, "google_request") =>
          /\ Before(p, "cache_miss", "google_request")
          /\ seenData[p].kind # "book"
    /\ Did(p, "openLibrary.fetchBookInfo") =>
          /\ Before(p, "google_request", "google_miss")
          /\ Before(p, "google_miss", "openLibrary.fetchBookInfo")
    /\ \A r \in {"books_request", "isbn_request"} :
          Did(p, r) => Before(p, "openLibrary.fetchBookInfo", r)
    /\ Did(p, "google_book") =>
          /\ ~Did(p, "openLibrary.fetchBookInfo")
          /\ ~Did(p, "books_request")
          /\ ~Did(p, "isbn_request")
    /\ Did(p, "cache_hit") => Range(hist[p]) \cap ProviderRequests = {}

\* one resolution went through the cache, Google Books and both requests of
\* Open Library, another one ended with the book of Google Books
C27_Witness ==
  \E p, q \in Procs :
    /\ Done(p)
    /\ Did(p, "cache_miss")
    /\ Did(p, "google_miss")
    /\ Did(p, "isbn_request")
    /\ Done(q)
    /\ Did(q, "google_book")
    /\ ~Did(q, "openLibrary.fetchBookInfo")

\* no other resolution is inside cacheBookInfo
NoOtherWriter(p) == \A q \in Procs \ {p} : pc[q] \notin {"put_read", "put_write"}

\* C28: when a provider returns metadata in a resolution whose storage calls
\* all worked, while no other resolution is writing the cache, then in the
\* state the resolver returns in, the cache holds an entry for the ISBN whose
\* data is the metadata returned.
C28_ReturnedMetadataIsCached ==
  [][\A p \in Procs :
       (pc[p] = "put_write" /\ pc'[p] = "done" /\ ~fault'[p] /\ NoOtherWriter(p)) =>
         /\ result'[p].success
         /\ result'[p].book = book[p]
         /\ storage'[isbn[p]].kind = "entry"
         /\ storage'[isbn[p]].data = result'[p].book]_vars

\* a resolution ended with the record of Open Library's ISBN endpoint, its
\* storage calls worked, and the cache holds the record
C28_Witness ==
  \E p \in Procs :
    /\ Done(p)
    /\ Did(p, "isbn_book")
    /\ Did(p, "stored")
    /\ ~fault[p]
    /\ NoOtherWriter(p)
    /\ result[p].success
    /\ storage[isbn[p]].kind = "entry"
    /\ storage[isbn[p]].data = result[p].book

\* C32: every entry of the metadata cache stored under key k has data.isbn
\* equal to k and a data.source that names a provider, never 'none'; hence a
\* resolution that ended with a cache hit returned metadata about its ISBN.
C32_EntriesMatchTheirKey ==
  /\ \A k \in Isbns :
       storage[k].kind = "entry" =>
         /\ storage[k].data.kind = "book"
         /\ storage[k].data.isbn = k
         /\ storage[k].data.source \in {"google-books", "open-library"}
  /\ \A p \in Procs :
       (Done(p) /\ (Did(p, "cache_hit") \/ Did(p, "ol_cache_hit"))) =>
         /\ result[p].success
         /\ result[p].book.isbn = isbn[p]
         /\ result[p].book.source # "none"

\* the cache holds an entry of each provider, each under its own ISBN, and a
\* resolution has ended with a cache hit
C32_Witness ==
  /\ \E j, k \in Isbns :
       /\ storage[j].kind = "entry"
       /\ storage[k].kind = "entry"
       /\ storage[j].data.source = "google-books"
       /\ storage[k].data.source = "open-library"
  /\ \E p \in Procs : Done(p) /\ Did(p, "cache_hit") /\ result[p].book.isbn = isbn[p]

\* C34: in Open Library's provider the per-ISBN endpoint is requested if and
\* only if the bib-key request failed or gave no record for the key; a failure
\* of the bib-key request never ends the provider; and the provider returns null
\* only after both endpoints gave nothing.
C34_SecondEndpointAfterFirst ==
  /\ [](\A p \in Procs :
          /\ Did(p, "isbn_request") <=> Did(p, "books_miss")
          /\ Did(p, "isbn_request") =>
                /\ Before(p, "books_request", "books_miss")
                /\ Before(p, "books_miss", "isbn_request")
          /\ Did(p, "books_book") => ~Did(p, "isbn_request")
          /\ (Done(p) /\ olRet[p] = Null) =>
                /\ Before(p, "books_miss", "isbn_miss")
                /\ ~result[p].success)
  /\ [][\A p \in Procs :
          (pc[p] = "ol_books" /\ pc'[p] # "ol_books") =>
            \/ pc'[p] = "ol_isbn" /\ book'[p] = book[p]
            \/ pc'[p] = "put_read" /\ book'[p].source = "open-library"]_vars

\* one resolution found nothing at either endpoint, another one got the record
\* of the bib-key request and never asked the per-ISBN endpoint
C34_Witness ==
  \E p, q \in Procs :
    /\ Done(p)
    /\ Did(p, "books_miss")
    /\ Did(p, "isbn_miss")
    /\ olRet[p] = Null
    /\ Done(q)
    /\ Did(q, "books_book")
    /\ ~Did(q, "isbn_request")

(***************************************************************************)
(* Claims about the userscript, checked under SpecUserscript               *)
(***************************************************************************)
ActiveScans == {a \in Scans : ScanActive(a)}

\* C8: at most one scan is in progress at any time, and isScanning is true
\* exactly while one is; a call of scanPage made while isScanning is true
\* starts no activation, issues no request, renders nothing and leaves
\* isScanning true, and an activation starts only in the step of a call made
\* while isScanning is false, so that a dropped call is never run later.
C8_OneScanAtATime ==
  /\ [](/\ Cardinality(ActiveScans) <= 1
        /\ isScanning = (ActiveScans # {})
        /\ started <= calls)
  /\ [][/\ (calls' = calls + 1 /\ isScanning) =>
              /\ started' = started
              /\ fetching' = fetching
              /\ renders' = renders
              /\ panel' = panel
              /\ bookCache' = bookCache
              /\ isScanning'
        /\ (calls' = calls + 1 /\ ~isScanning) => started' = started + 1
        /\ (calls' = calls) =>
              /\ started' = started
              /\ \A a \in Scans : ~ScanActive(a) => ~ScanActive(a)']_vars

\* a call of scanPage was dropped while the scan it met is still in progress
C8_Witness ==
  /\ isScanning
  /\ calls > started
  /\ ActiveScans # {}

\* C22: a scan trigger that arrives while a scan is in progress is a no-op: the
\* step of a call of scanPage made while isScanning is true, be it the initial,
\* the debounced or the Scan Page one, leaves detectedISBNs and bookData as they
\* were.
C22_TriggerWhileScanningIsNoOp ==
  [][(calls' = calls + 1 /\ isScanning) =>
       (detectedISBNs' = detectedISBNs /\ bookData' = bookData)]_vars

\* C30: every scan that sets isScanning eventually resets it, on normal
\* completion, on the nothing-new return and when the try block throws,
\* provided every provider request is answered: the flag is set only while a
\* request of the scan is pending, and a set flag is reset in the end.
C30_ScanningFlagIsReset ==
  /\ [](isScanning => \E a \in Scans : ScanActive(a))
  /\ (isScanning ~> ~isScanning)

\* a scan that awaited its requests has ended because renderPanel threw: the
\* flag is reset and the panel does not show what the scan found
C30_Witness ==
  /\ ~isScanning
  /\ started > 0
  /\ \A a \in Scans : ~ScanActive(a)
  /\ \E i \in UIsbns : bookData[i].kind = "book" /\ panel[i] # bookData[i]

====
